---- MODULE Spec2Model ----
(***************************************************************************)
(* Order-lifecycle state machine of MarketMakerBot for one symbol.         *)
(*                                                                         *)
(* The exchange side (position, open orders, order history) is the shared  *)
(* state; a cycle is one run of run.py main() in --execute mode.  Every    *)
(* exchange call of the code can fail; the code's try/except blocks decide *)
(* what a failure does.  Quantities are counted in units of the            *)
(* instrument's stepSize, so rounding a quantity down to the step is the   *)
(* integer floor.  Open orders are a bag: the code never tells two orders  *)
(* with equal fields apart except by orderId.                              *)
(***************************************************************************)
EXTENDS Integers, FiniteSets, Sequences, Bags, TLC

\* ---- bounds of the model ------------------------------------------------
MaxOrders   == 3    \* open orders the exchange accepts for the symbol
MaxPos      == 2    \* largest position size, in steps
MaxQty      == 2    \* planned entry quantity, in steps
MaxFailures == 1    \* exchange calls that fail in one behaviour

\* ---- program constants ---------------------------------------------------
cancel_after_bars == 4
max_reprice       == 2

\* run.py:861: an entry order this many bars old is cancelled; the code
\* asks nothing else of bars_elapsed, so ages are counted up to here
near_expiry == cancel_after_bars - 2

\* ---- bounds of time, prices and the daily loss -----------------------------
\* wait_fill_seconds of place_*_with_sl_tp, in sleeps of the polling loop
wait_fill_seconds == 1

\* the longest the two queries of a polling iteration take, in sleeps
MaxLatency == 1

\* precision of the arithmetic of a plan's sizing
Scale == 10

MaxEquity == 3

MaxEntry == 3

MaxSize == 4

\* math.isnan(atr_percent)
NaN == -1

\* significant bits of a float, and bits after the binary point of the unit
MantBits == 5

FracBits == 8

\* the largest value that is quantized, in tenths
MaxValue == 12

\* the largest limit price of an entry order, in units of 50 USD
MaxLimit == 4

\* the largest LOT_SIZE minQty, in twentieths
MaxMinQty == 6

\* the largest position, in steps
MaxSteps == 8

\* the farthest a plan's stop and targets are from the mark price, in ticks
MaxOffset == 40

\* the smallest entry price above 1 of a candidate
MinEntry == 4

\* the trade results a RiskEngine is given
MaxResults == 4

\* the last hour of the clock, counted from the start of UTC day 0
MaxNow == 49

\* the mutations of the day state in one behaviour
MaxOps == 3

\* mcfg['hourly_signal_cap'], and mcfg['same_coin_cooldown_min'] in hours
hourly_signal_cap == 2

same_coin_cooldown == 2

\* mcfg['max_open'], and the symbols of the universe
max_open == 2

MaxSymbols == 4

\* the bars the scan looks back over (40 in run.py:511), the bars a window
\* needs (20 in run.py:513), and the longest series of bars
ScanBars == 4

MinBars == 2

MaxBars == 6

\* cfg["risk"]["max_daily_loss_r"], in R
max_daily_loss_r == 2

\* RiskEngine.day_r_pnl as main() has it: set in __init__, and neither
\* on_trade_result nor DayState.add_R is ever called
day_r_pnl == 0

can_trade_today == day_r_pnl > -max_daily_loss_r

Cycles   == {1, 2}
\* LOT_SIZE minQty: one step, or as much as the whole planned quantity
MinQtys  == {1, MaxQty}
\* the plan's quantity; smaller positions come from partial fills
PlanQtys == {MaxQty}

VARIABLES
    positionAmt,    \* exchange: absolute position size of the symbol
    orders,         \* exchange: open orders of the symbol (bag of records)
    hist,           \* exchange: recent history holds a FILLED reduce-only LIMIT
    tp_filled,      \* exchange: a take-profit of the position now open has filled
    min_qty,        \* exchange: LOT_SIZE minQty of the symbol
    entry_style,    \* args.entry_style
    reprice_count,  \* DayState reprice_count[symbol] of the latest process
    stale,          \* the UTC date has changed since DayState was last loaded
    repriced,       \* re-pricings of the symbol done in the current UTC day
    day_loss,       \* losses of the current UTC day, in R (one per stop-out)
    drift_far,      \* retest style, plan at hand: the symbol's mark price is more
                    \*   than 0.8 of the symbol's ATR away from the plan's entry
    pc,             \* per cycle: position in main()
    pos_symbols,    \* per cycle: symbol was in pos_symbols (run.py:420)
    plan_qty,       \* per cycle: qty of the symbol's plan, 0 = no plan
    entry_status,   \* per cycle: status the exchange reports for its entry
    filled,         \* per cycle: local `filled` of place_*_with_sl_tp
    elapsed,        \* per cycle: time since the polling loop set its deadline,
                    \*            in sleeps of the loop (2 s)
    amt,            \* per cycle: positionAmt seen by the latest poll, -1 = none
    placed,         \* per cycle: an entry order was created in this cycle
    stayed_flat,    \* per cycle: the position was zero at its start and ever since
    blocked,        \* per cycle: a pre-placement check of the plan at hand ran
                    \*            while the symbol had a position or an un-expired
                    \*            entry order
    failures,       \* exchange calls that have failed so far
    sizing,         \* the inputs and the result of sizing one plan (run.py:593-609)
    quant,          \* one value, its quantization and the quantization of that
                    \*   (execution.py:6-14)
    entry_order,    \* the arguments of place_*_with_sl_tp and the price and the
                    \*   quantity it submits (execution.py:69-95, 275-295)
    tp_split,       \* a position, and the take-profit orders that the entry path
                    \*   and ensure_protection submit for it
    prot,           \* the plan's stop and targets, the mark price, and the prices
                    \*   of the protective orders submitted for them
    plan,           \* one candidate of the scan: entry, ATR and structure, and the
                    \*   stop and the targets computed for it (run.py:537-576)
    risk,           \* a RiskEngine: equity, r_per_trade, losing_streak, the trade
                    \*   results it was given, and the position size it returned if
                    \*   that was its last call
    account,        \* every symbol of the universe on the exchange: flat, with a
                    \*   pending entry order, or with a position; and what the
                    \*   last cycle counted and placed
    bar_scan,       \* the 15m bars of a symbol, by whether the window that ends
                    \*   at the bar triggers and passes all checks, and the bar
                    \*   the plan was built from
    day_state       \* the day-state file, the clock, and the DayState of the
                    \*   process that is alive: its state, whether it has just
                    \*   been constructed, and the UTC day of the last save

vars == << positionAmt, orders, hist, tp_filled, min_qty, entry_style, reprice_count,
           stale, repriced, drift_far, day_loss,
           pc, pos_symbols, plan_qty, entry_status, filled, elapsed, amt,
           placed, stayed_flat, blocked, failures, sizing, quant, entry_order, tp_split,
           prot, plan, risk, day_state, account, bar_scan >>

\* the variables of the calculations that touch neither the exchange nor the
\* cycle
calc == << quant, entry_order, tp_split, prot, plan, risk, day_state, account,
           bar_scan >>

config == << min_qty, entry_style >>

\* `day`, the DayState of run.py:327, and the history of its symbol
day == << reprice_count, stale, repriced >>

\* ---- orders --------------------------------------------------------------
\* owner: the cycle that holds the orderId in its local order_id, 0 = none
Order(typ, cp, ro, q, c) ==
    [type |-> typ, closePosition |-> cp, reduceOnly |-> ro,
     origQty |-> q, executedQty |-> 0, age |-> 0, owner |-> c]

EntryOrder(typ, q, c) == Order(typ, FALSE, FALSE, q, c)

StopMarket == Order("STOP_MARKET", TRUE, FALSE, 0, 0)

TakeProfitLimit(q) == Order("LIMIT", FALSE, TRUE, q, 0)

TakeProfitMarket == Order("TAKE_PROFIT_MARKET", TRUE, FALSE, 0, 0)

\* a trailing stop for a quantity, not for the position
TrailingStopSized == Order("TRAILING_STOP_MARKET", FALSE, TRUE, 1, 0)

TrailingStop == Order("TRAILING_STOP_MARKET", TRUE, FALSE, 0, 0)

One(o) == SetToBag({o})

\* futures_create_order: accepted only when the exchange answers (ok) and
\* has room for one more open order
Created(b, ok) == ok /\ BagCardinality(b) < MaxOrders

Create(b, o, ok) == IF Created(b, ok) THEN b (+) One(o) ELSE b

\* ---- order classifications used by the code ------------------------------
IsEntry(o) ==
    (~o.reduceOnly) /\ (~o.closePosition) /\ o.type \in {"STOP", "LIMIT"}

IsSL(o) == o.type \in {"STOP", "STOP_MARKET"} /\ o.closePosition

IsTPLimit(o) == o.type = "LIMIT" /\ o.reduceOnly

IsTP(o) ==
    \/ (o.type = "LIMIT" /\ o.reduceOnly)
    \/ (o.type \in {"TAKE_PROFIT", "TAKE_PROFIT_MARKET"} /\ o.closePosition)

IsTrailing(o) == o.type = "TRAILING_STOP_MARKET" /\ o.closePosition

protected_types_run ==
    {"STOP", "STOP_MARKET", "TAKE_PROFIT", "TAKE_PROFIT_MARKET"}

protected_types_exec ==
    {"STOP", "STOP_MARKET", "TAKE_PROFIT", "TAKE_PROFIT_MARKET",
     "TRAILING_STOP_MARKET"}

\* the part of bag b on the order kinds in S
Restrict(b, S) == [o \in (DOMAIN b) \cap S |-> b[o]]

Count(b, S) == BagCardinality(Restrict(b, S))

Min(a, b) == IF a <= b THEN a ELSE b

Max(a, b) == IF a >= b THEN a ELSE b

\* ---- sizing of a plan (run.py:18-26, 593-609) ---------------------------
\* prices, quantities, equity and leverage are multiples of 1 / Scale, and
\* every product and quotient is rounded to the nearest multiple as the
\* float operations of the code round to the nearest double
RoundDiv(a, b) == (2 * a + b) \div (2 * b)

Mul(a, b) == RoundDiv(a * b, Scale)

Div(a, b) == RoundDiv(a * Scale, b)

\* atr_percent in hundredths (3 is 0.03), NaN for float("nan")
dynamic_leverage_cap(atr_percent, base_cap) ==
    IF atr_percent = NaN THEN base_cap
    ELSE IF atr_percent <= 3 THEN Min(base_cap, 3 * Scale)
    ELSE IF atr_percent >= 7 THEN Min(base_cap, 2 * Scale)
    ELSE base_cap

\* `if entry * qty > max_notional: qty *= max_notional / (entry * qty)`
CapNotional(entry, qty, max_notional) ==
    IF Mul(entry, qty) > max_notional
    THEN Mul(qty, Div(max_notional, Mul(entry, qty)))
    ELSE qty

\* the qty of the plan appended at run.py:610 / 713
PlanQty(equity, entry, qty, lev, lev_cap_dyn) ==
    CapNotional(entry, CapNotional(entry, qty, Mul(equity, lev)),
                Mul(equity, lev_cap_dyn))

Equities == {k * Scale : k \in 1..MaxEquity}

Entries == {(k * Scale) \div 2 : k \in 2..(2 * MaxEntry)}

Sizes == {(k * Scale) \div 2 : k \in 2..(2 * MaxSize)}

\* _compute_dynamic_leverage returns 5, 10, 15 or 20
Levs == {5 * Scale, 20 * Scale}

AtrPercents == {NaN, 3, 5, 7}

BaseCaps == {3 * Scale, 5 * Scale}

NoSizing ==
    [equity |-> Scale, entry |-> Scale, qty |-> Scale, lev |-> 5 * Scale,
     atr_percent |-> NaN, lev_cap_base |-> 3 * Scale, lev_cap_dyn |-> 0,
     sized |-> FALSE]

\* ---- floating point ------------------------------------------------------
\* A float is a natural number of units of 2^-FracBits that has at most
\* MantBits significant bits; every operation rounds its exact result to the
\* nearest float, ties to the even mantissa.
RECURSIVE Pow2(_)
Pow2(n) == IF n = 0 THEN 1 ELSE 2 * Pow2(n - 1)

RECURSIVE BitLen(_)
BitLen(x) == IF x = 0 THEN 0 ELSE 1 + BitLen(x \div 2)

One1 == Pow2(FracBits)

Ulp(x) == IF BitLen(x) > MantBits THEN Pow2(BitLen(x) - MantBits) ELSE 1

\* the float nearest to the rational n / d of units, for n >= 0 and d > 0
FlAbs(n, d) ==
    LET u    == Ulp(n \div d)
        base == ((n \div d) \div u) * u
        rem  == n - base * d
    IN  IF 2 * rem > u * d THEN base + u
        ELSE IF 2 * rem < u * d THEN base
        ELSE IF (base \div u) % 2 = 0 THEN base ELSE base + u

Fl(n, d) == IF n < 0 THEN 0 - FlAbs(0 - n, d) ELSE FlAbs(n, d)

IsFloat(x) == Fl(x, 1) = x

FMul(a, b) == Fl(a * b, One1)

FDiv(a, b) == Fl(a * One1, b)

FSub(a, b) == Fl(a - b, 1)

\* math.floor and math.ceil
floor(x) == (x \div One1) * One1

ceil(x) == ((x + One1 - 1) \div One1) * One1

\* the float of the decimal 1 / d, and of n / d
Dec(n, d) == Fl(n * One1, d)

\* ---- _round_step (execution.py:6-14) --------------------------------------
round_step(value, step, mode) ==
    IF step = 0 THEN value
    ELSE LET q == FDiv(value, step)
         IN  FMul(IF mode = "down" THEN floor(q) ELSE ceil(q), step)

\* step sizes: none, a power of two, and the decimal 0.1
Steps == {0, Dec(1, 4), Dec(1, 10)}

Modes == {"down", "up"}

\* every float up to MaxValue tenths
Values == {x \in 0 .. Dec(MaxValue, 10) : IsFloat(x)}

NoQuant == [value |-> 0, step |-> 0, mode |-> "down", done |-> 2, q1 |-> 0, q2 |-> 0]

\* ---- _format_by_step (execution.py:16-27) -----------------------------------
\* _decimals_from_step: the digits after the point in the step as printed
\* with 12 decimals, as a power of ten
Decimals(step) ==
    IF step = Dec(1, 10) THEN 10 ELSE IF step = Dec(1, 4) THEN 100 ELSE 1

\* f"{v:.{d}f}": the decimal of den-ths nearest to the float v, as a count of
\* den-ths
Nearest(v, den) ==
    LET q == (v * den) \div One1
        r == (v * den) % One1
    IN  IF 2 * r > One1 THEN q + 1
        ELSE IF 2 * r < One1 THEN q
        ELSE IF q % 2 = 0 THEN q ELSE q + 1

format_by_step(value, step, mode) ==
    Nearest(round_step(value, step, mode), Decimals(step))

\* ---- the entry order (execution.py:69-95, 275-295; run.py:799-803) ----------
\* money is counted in units of 50 USD: 150.0 is 3 and 400.0 is 8
dyn_floor(equity) ==
    Max(3 * One1, Min(FMul(Dec(2, 100), equity), 8 * One1))

\* cfg risk.min_notional_floor_usd, default 50, and the MIN_NOTIONAL filter of
\* _get_symbol_filters, default 20
min_notional_floor == One1

min_notional == Dec(4, 10)

\* LOT_SIZE minQty as the exchange states it, in twentieths
MinQty(e) == Dec(e.min_qty, 20)

qty_r(e) ==
    LET q0     == Max(round_step(e.qty, e.step, "down"), MinQty(e))
        floor0 == Max(min_notional, Max(min_notional_floor, dyn_floor(e.equity)))
    IN  IF floor0 # 0 /\ FMul(e.limit, q0) < floor0
        THEN Max(q0, round_step(FDiv(floor0, e.limit), e.step, "up"))
        ELSE q0

\* the quantity and the price of the order as submitted, in counts of
\* 1 / Decimals(step) and of 1 / Decimals(tick)
qty_s(e) == format_by_step(qty_r(e), e.step, "down")

limit_s(e) == format_by_step(e.limit, e.tick, IF e.side = "LONG" THEN "down" ELSE "up")

Sides == {"LONG", "SHORT"}

\* tick and step sizes of an instrument
Ticks == {Dec(1, 4), Dec(1, 10)}

\* planned quantities, limit prices and equities
Qtys == {Dec(1, 10), Dec(3, 4), Dec(13, 10)}

\* prices near the notional floor, and one far above it
Limits == {x \in 2 * One1 .. MaxLimit * One1 : IsFloat(x)} \cup {10 * MaxLimit * One1}

SomeEquities == {100 * One1, 250 * One1, 500 * One1}

NoEntryOrder ==
    [side |-> "LONG", limit |-> 0, tick |-> 0, qty |-> 0, step |-> 0,
     min_qty |-> 0, equity |-> 0, submitted |-> TRUE, price |-> 0, quantity |-> 0]

\* ---- the take-profit split (execution.py:190-264, 538-579) -----------------
\* the steps in one unit: the step 0.1 or 0.25 as the exchange states it
StepDen(step) == IF step = Dec(1, 10) THEN 10 ELSE 4

\* positionAmt of k steps, as float(p.get('positionAmt'))
PosQty(t) == Dec(t.pos, StepDen(t.step))

\* The orders are <<tpm, q1, q2>>: a closePosition TAKE_PROFIT_MARKET is
\* submitted, and the quantities of the reduce-only LIMITs as submitted, in
\* counts of 1 / Decimals(step); 0 where no LIMIT is submitted.
Qty(q, t) == IF q >= MinQty(t) THEN format_by_step(q, t.step, "down") ELSE 0

\* execution.py:190-264 (and 390-462)
entry_tps(t) ==
    LET pos_qty == PosQty(t)
        h1   == round_step(FMul(pos_qty, One1 \div 2), t.step, "down")
        h2   == round_step(FSub(pos_qty, h1), t.step, "down")
        full == round_step(pos_qty, t.step, "down")
        one  == h2 < MinQty(t) \/ h1 < MinQty(t)
    IN  IF pos_qty >= 2 * MinQty(t)
        THEN << FALSE, Qty(IF one THEN full ELSE h1, t), IF one THEN 0 ELSE Qty(h2, t) >>
        ELSE IF pos_qty >= MinQty(t) THEN << FALSE, Qty(full, t), 0 >>
        ELSE << TRUE, 0, 0 >>

\* execution.py:538-579: the first LIMIT is submitted whatever its quantity
ensure_tps(t) ==
    LET pos_qty == PosQty(t)
        h1   == round_step(FMul(pos_qty, One1 \div 2), t.step, "down")
        h2   == round_step(FSub(pos_qty, h1), t.step, "down")
        full == round_step(pos_qty, t.step, "down")
    IN  IF pos_qty < 2 * MinQty(t)
        THEN IF pos_qty < MinQty(t) THEN << TRUE, 0, 0 >>
             ELSE << FALSE, format_by_step(full, t.step, "down"), 0 >>
        ELSE IF h2 < MinQty(t)
             THEN << FALSE, format_by_step(full, t.step, "down"), 0 >>
             ELSE << FALSE, format_by_step(h1, t.step, "down"), Qty(h2, t) >>

NoSplit == [pos |-> 0, min_qty |-> 0, step |-> 0, entry |-> << >>, ensure |-> << >>]

\* ---- prices of the protective orders (execution.py:130-188, 330-383, 521-566)
\* Prices are whole ticks; sums and products are in 1/10000 of a tick and
\* exact, so that only the tests and the roundings of the code decide.
\* buf = max(tick * 5, mark * 0.0005)
Buf(mark) == Max(5 * 10000, 5 * mark)

\* _format_by_step(price, tick, mode) of a price of x / 10000 ticks
ToTick(x, mode) ==
    IF mode = "down" THEN x \div 10000 ELSE (x + 9999) \div 10000

\* execution.py:135-141, 332-338, 524-531
sl_s(t) ==
    IF t.side = "LONG" THEN ToTick(Min(10000 * t.sl, 10000 * t.mark - Buf(t.mark)), "down")
    ELSE ToTick(Max(10000 * t.sl, 10000 * t.mark + Buf(t.mark)), "up")

\* execution.py:171-186 (anchor = mark), 366-381 (anchor = price); in
\* ensure_protection (538-540) the targets go out as they came
atr_abs(t) == Max(30 * t.mark, 3 * 10000)

anchor(t) == IF t.path = "stop_limit" THEN t.mark ELSE t.price

tp1(t) ==
    LET d1 == Max((6 * atr_abs(t)) \div 10, 3 * 10000)
    IN  IF t.path = "ensure" THEN 10000 * t.tp1
        ELSE IF t.side = "LONG" THEN Max(10000 * t.tp1, 10000 * anchor(t) + d1)
        ELSE Min(10000 * t.tp1, 10000 * anchor(t) - d1)

tp2(t) ==
    LET d2 == Max((8 * atr_abs(t)) \div 10, 3 * 10000)
    IN  IF t.path = "ensure" THEN 10000 * t.tp2
        ELSE IF t.side = "LONG" THEN Max(10000 * t.tp2, tp1(t) + d2)
        ELSE Min(10000 * t.tp2, tp1(t) - d2)

Up(t) == IF t.side = "LONG" THEN "up" ELSE "down"

\* the LIMIT prices tp1_s and tp2_s
tp_limits(t) == << ToTick(tp1(t), Up(t)), ToTick(tp2(t), Up(t)) >>

\* execution.py:210-218, 405-413, 547-553: the stop price of the
\* TAKE_PROFIT_MARKET of a position below the minimum quantity
tp_mkt_s(t) ==
    IF t.side = "LONG" THEN ToTick(Max(tp1(t), 10000 * t.mark + Buf(t.mark)), "up")
    ELSE ToTick(Min(tp1(t), 10000 * t.mark - Buf(t.mark)), "down")

Paths == {"stop_limit", "limit", "ensure"}

\* mark prices for which 5 ticks, and for which 0.05 %, is the larger buffer
Marks == {2000, 20000}

\* the plan's prices, as offsets in ticks from the mark price, towards profit
Offsets == {0 - MaxOffset, 0 - 2, 2, MaxOffset}

Plans ==
    [path : Paths, side : Sides, mark : Marks, price : {0}, d_price : {0 - 2, 0},
     d_sl : Offsets, d_tp1 : Offsets, d_tp2 : {2, MaxOffset}, sl : {0}, tp1 : {0},
     tp2 : {0}, small : BOOLEAN, placed : {FALSE}, stop : {0}, targets : {<< >>}]

Sign(t) == IF t.side = "LONG" THEN 1 ELSE 0 - 1

NoProt ==
    [path |-> "ensure", side |-> "LONG", mark |-> 0, price |-> 0, d_price |-> 0,
     d_sl |-> 0, d_tp1 |-> 0, d_tp2 |-> 0, sl |-> 0, tp1 |-> 0, tp2 |-> 0,
     small |-> FALSE, placed |-> TRUE, stop |-> 0, targets |-> << >>]

\* ---- stop and targets of a plan (run.py:537-576, 647-683) ------------------
FAdd(a, b) == Fl(a + b, 1)

\* abs(a - b)
Dist(a, b) == IF a >= b THEN FSub(a, b) ELSE FSub(b, a)

\* cfg["stops"]["min_atr_mult"] and cfg["stops"]["max_atr_mult"]
min_mult == Dec(8, 10)

max_mult == 2 * One1

\* run.py:547-549, 654-656: the structural stop, clamped
stop_of(c) ==
    LET dist == IF c.side = "LONG" THEN FSub(c.entry, c.sl_struct)
                                   ELSE FSub(c.sl_struct, c.entry)
        target_dist == Min(Max(dist, FMul(min_mult, c.atr15)), FMul(max_mult, c.atr15))
    IN  IF c.side = "LONG" THEN FSub(c.entry, target_dist) ELSE FAdd(c.entry, target_dist)

\* liquidity.py:168-173
validate_stop_distance(entry, sl, atr15) ==
    /\ Dist(entry, sl) >= FMul(FMul(min_mult, Dec(9, 10)), atr15)
    /\ Dist(entry, sl) <= FMul(FMul(max_mult, Dec(11, 10)), atr15)

\* liquidity.py:176-188; entry and atr15 are positive numbers here
Widened(entry, atr15) == entry < One1 \/ FDiv(atr15, entry) < Dec(1, 100)

validate_stop_distance_dynamic(entry, sl, atr15) ==
    LET lo == IF Widened(entry, atr15) THEN Dec(4, 10) ELSE min_mult
        hi == IF Widened(entry, atr15) THEN 3 * One1 ELSE max_mult
    IN  Dist(entry, sl) >= FMul(lo, atr15) /\ Dist(entry, sl) <= FMul(hi, atr15)

\* run.py:551-554
ok_dist(c, sl) ==
    IF c.mode = "relaxed" THEN validate_stop_distance_dynamic(c.entry, sl, c.atr15)
    ELSE validate_stop_distance(c.entry, sl, c.atr15)

\* run.py:561-576, 668-683: min_delta1, min_delta2 and the targets
min_delta1(c) == Max(FMul(Dec(6, 10), c.atr15), FMul(3 * One1, c.tick))

min_delta2(c) == Max(FMul(Dec(8, 10), c.atr15), FMul(3 * One1, c.tick))

\* the first target as smc_targets_* returns it
t1_raw(c, raw1) == raw1

t1_of(c, raw1) ==
    IF c.side = "LONG"
    THEN IF raw1 < FAdd(c.entry, min_delta1(c)) THEN FAdd(c.entry, min_delta1(c)) ELSE raw1
    ELSE IF raw1 > FSub(c.entry, min_delta1(c)) THEN FSub(c.entry, min_delta1(c)) ELSE raw1

t2_of(c, t1, raw2) ==
    IF c.side = "LONG"
    THEN IF raw2 < FAdd(t1, min_delta2(c)) THEN FAdd(t1, min_delta2(c)) ELSE raw2
    ELSE IF raw2 > FSub(t1, min_delta2(c)) THEN FSub(t1, min_delta2(c)) ELSE raw2

\* entry prices: one below 1, and the floats from MinEntry to twice MinEntry;
\* the tick goes with the price, and is no smaller than the spacing of the
\* floats around the entry
PlanEntries ==
    {Dec(1, 2)} \cup {x \in MinEntry * One1 .. 2 * MinEntry * One1 : IsFloat(x)}

TickOf(entry) == IF entry < One1 THEN Dec(1, 16) ELSE Dec(1, 2)

\* ATR of the 15m bars: below 1 % of every entry above 1, and larger
Atrs == {Dec(1, 32), Dec(1, 4), Dec(1, 2)}

\* distances of the structural stop and of the raw targets from the entry
StructDists == {0, Dec(1, 8), Dec(1, 2), One1, 2 * One1}

RawDists == {0, Dec(1, 4), One1, 3 * One1}

Away(c, d) == IF c.side = "LONG" THEN FAdd(c.entry, d) ELSE FSub(c.entry, d)

Candidates ==
    [mode : {"strict", "relaxed"}, side : Sides, entry : PlanEntries, tick : {0},
     atr15 : Atrs, d_struct : StructDists, sl_struct : {0}, stage : {"stop"},
     sl : {0}, t1 : {0}, t2 : {0}]

NoPlan ==
    [mode |-> "strict", side |-> "LONG", entry |-> 0, tick |-> 0, atr15 |-> 0,
     d_struct |-> 0, sl_struct |-> 0, stage |-> "none", sl |-> 0, t1 |-> 0, t2 |-> 0]

\* ---- RiskEngine (risk.py:4-32) ----------------------------------------------
\* r_per_trade is counted in 1/2000, a quantity in 1/1000, equity and stop
\* distance in USD; the division rounds to the nearest 1/1000
position_size(e, stop_distance) ==
    LET r == IF e.losing_streak >= 3 THEN e.r_per_trade \div 2 ELSE e.r_per_trade
    IN  IF stop_distance <= 0 THEN 0
        ELSE Max(0, RoundDiv(e.equity * r, 2 * stop_distance))

\* on_trade_result that never forgets a loss
on_trade_result_sticky(e, r_result) ==
    IF r_result < 0 THEN e.losing_streak + 1 ELSE e.losing_streak

\* the losing_streak that on_trade_result leaves
on_trade_result(e, r_result) ==
    IF r_result < 0 THEN e.losing_streak + 1 ELSE 0

\* cfg risk.r_per_trade after run.py:399: 0.003 to 0.010
RPerTrade == {6, 20}

RiskEquities == {2500, 10000}

StopDistances == {0 - 50, 0, 20, 50}

NoRisk ==
    [equity |-> 0, r_per_trade |-> 0, losing_streak |-> 0, results |-> << >>,
     stop_distance |-> 0, qty |-> 0, sized |-> TRUE]

\* ---- DayState (risk_state.py) --------------------------------------------
\* The clock counts hours; a dict is a function of its keys, a JSON object
\* the function of the keys it holds.

\* _today() and datetime.now(timezone.utc).hour
Date(now) == now \div 24

Hour(now) == now % 24

EmptyDict == [k \in {} |-> 0]

\* d[k] = v
Put(d, k, v) == [x \in DOMAIN d \cup {k} |-> IF x = k THEN v ELSE d[x]]

\* del d[k]
Del(d, k) == [x \in DOMAIN d \ {k} |-> d[x]]

\* __init__ (risk_state.py:10-18): the state before _load
Default(now) ==
    [date |-> Date(now), net_R |-> 0, relaxed_enabled |-> TRUE,
     signals_this_hour |-> 0, hour |-> Hour(now),
     cooldown_until |-> EmptyDict, reprice_count |-> EmptyDict]

\* dict.update: the keys of data replace those of state
update(state, data) ==
    [k \in DOMAIN state \cup DOMAIN data |->
        IF k \in DOMAIN data THEN data[k] ELSE state[k]]

\* the file is absent, or does not parse, or holds a JSON object
NoFile == [kind |-> "none", data |-> EmptyDict]

Corrupt == [kind |-> "corrupt", data |-> EmptyDict]

\* save (risk_state.py:34-39): json.dump of the whole state
save(state) == [kind |-> "json", data |-> state]

\* _load (risk_state.py:24-32): a missing file and a failing json.load leave
\* the state alone, and so does a record whose date is not today's
load(file, state, now) ==
    IF /\ file.kind = "json"
       /\ "date" \in DOMAIN file.data
       /\ file.data["date"] = Date(now)
    THEN update(state, file.data)
    ELSE state

add_R(state, r) == [state EXCEPT !["net_R"] = @ + r]

\* reset_hour (risk_state.py:45-50)
reset_hour(state, now) ==
    [state EXCEPT !["hour"] = Hour(now), !["signals_this_hour"] = 0]

inc_signals(state) == [state EXCEPT !["signals_this_hour"] = @ + 1]

\* set_cooldown (risk_state.py:60-63): until is now + minutes
set_cooldown(state, symbol, until) ==
    [state EXCEPT !["cooldown_until"] = Put(@, symbol, until)]

get_reprice_count(state, symbol) ==
    IF symbol \in DOMAIN state["reprice_count"] THEN state["reprice_count"][symbol]
    ELSE 0

inc_reprice(state, symbol) ==
    [state EXCEPT !["reprice_count"] =
                      Put(@, symbol, get_reprice_count(state, symbol) + 1)]

reset_reprice(state, symbol) ==
    [state EXCEPT !["reprice_count"] = Del(@, symbol)]

DaySymbols == {"BTCUSDT"}

\* the files a process may find: none, one that does not parse, and records
\* of yesterday and of today, whole or in part
Files(now) ==
    LET full(d) == [date |-> d, net_R |-> 1, relaxed_enabled |-> TRUE,
                    signals_this_hour |-> 2, hour |-> Hour(now - 1),
                    cooldown_until |-> [k \in DaySymbols |-> now + 1],
                    reprice_count |-> [k \in DaySymbols |-> 1]]
    IN {NoFile, Corrupt, save(full(Date(now) - 1)), save(full(Date(now))),
        save([date |-> Date(now), net_R |-> 1]), save([net_R |-> 1])}

\* on_cooldown (risk_state.py:65-77)
on_cooldown(state, symbol, now) ==
    /\ symbol \in DOMAIN state["cooldown_until"]
    /\ now < state["cooldown_until"][symbol]

\* what the last look at a symbol did (run.py:499-505 and the bar scan): the
\* cap was reached in the hour of the state, the hour had changed, and the
\* outcome
NoScan == [symbol |-> "", capped |-> FALSE, changed |-> FALSE, outcome |-> "none"]

\* no process is alive, no file is there
NoDayState ==
    [now |-> 0, file |-> NoFile, alive |-> FALSE, state |-> Default(0),
     loaded |-> FALSE, saved_on |-> 0 - 1, ops |-> MaxOps,
     stopped_on |-> 0 - 1, pre |-> NoFile, post |-> Default(0),
     mode |-> "none", phase |-> "none", planned |-> {}, cool |-> EmptyDict,
     scan |-> NoScan, incs |-> 0]

\* ---- max open positions (run.py:72-86, 736-741, 810) ---------------------
Universe == 1 .. MaxSymbols

Positions(status) == {s \in Universe : status[s] = "position"}

\* _count_open_positions: 0 where the position query fails
count_open_positions(status, fail) ==
    IF fail THEN 0 ELSE Cardinality(Positions(status))

allowed_slots(open_cnt) == Max(0, max_open - open_cnt)

NoAccount ==
    [status |-> [s \in Universe |-> "flat"], placed |-> 0, open_before |-> 0]

\* ---- the bar scan (run.py:507-730) ----------------------------------------
\* bars[j]: the window k15_c[:j] triggers and the candidate built from it
\* passes all checks. The bar a plan is built from is the last of its window.

\* sub = k15_c if i == 1 else k15_c[:-(i-1)]: the number of the last bar
SubEnd(len, i) == IF i = 1 THEN len ELSE IF i - 1 >= len THEN 0 ELSE len - (i - 1)

RECURSIVE scan_from(_, _)
\* for i in range(40, 0, -1), from i on: the bar of the plan, 0 for none
scan_from(bars, i) ==
    IF i = 0 THEN 0
    ELSE LET last == SubEnd(Len(bars), i)
         IN IF last < MinBars THEN scan_from(bars, i - 1)
            ELSE IF bars[last] THEN last
            ELSE scan_from(bars, i - 1)

bar_of_plan(bars) == scan_from(bars, ScanBars)

AllBars == UNION {[1 .. n -> BOOLEAN] : n \in MinBars - 1 .. MaxBars}

NoBarScan == [bars |-> << >>, done |-> TRUE, plans |-> << >>]

\* the calculations that a specification leaves alone
Unused(used) ==
    /\ IF "quant" \in used THEN TRUE ELSE quant = NoQuant
    /\ IF "entry_order" \in used THEN TRUE ELSE entry_order = NoEntryOrder
    /\ IF "tp_split" \in used THEN TRUE ELSE tp_split = NoSplit
    /\ IF "prot" \in used THEN TRUE ELSE prot = NoProt
    /\ IF "plan" \in used THEN TRUE ELSE plan = NoPlan
    /\ IF "risk" \in used THEN TRUE ELSE risk = NoRisk
    /\ IF "day_state" \in used THEN TRUE ELSE day_state = NoDayState
    /\ IF "account" \in used THEN TRUE ELSE account = NoAccount
    /\ IF "bar_scan" \in used THEN TRUE ELSE bar_scan = NoBarScan

\* _round_step(pos_qty * 0.5, step, 'down') in units of the step
HalfDown(q) == q \div 2

\* ---- _cleanup_stale_protection_orders (run.py:108-136) -------------------
\* bad: the reads that fail; keep: the orders whose cancel call fails
CleanupTargets(b, p) ==
    {o \in DOMAIN b : o.type \in protected_types_run /\ o.closePosition /\ p = 0}

CleanupResult(b, p, bad, keep) ==
    IF "pos" \in bad \/ "oo" \in bad THEN b
    ELSE (b (-) Restrict(b, CleanupTargets(b, p))) (+) keep

\* ---- FuturesExecutor.cancel_protection_if_flat ---------------------------
\* the variant that selects by the type alone
FlatTargetsByType(b) == {o \in DOMAIN b : o.type \in protected_types_exec}

FlatTargets(b) ==
    {o \in DOMAIN b : o.type \in protected_types_exec
                       /\ (o.closePosition \/ o.reduceOnly)}

CancelIfFlatResult(b, p, bad, keep) ==
    IF "pos" \in bad THEN b
    ELSE IF p # 0 THEN b
    ELSE IF "oo" \in bad THEN b
    ELSE (b (-) Restrict(b, FlatTargets(b))) (+) keep

\* ---- FuturesExecutor.ensure_protection -----------------------------------
EnsureCalls == {"info", "oo", "pos", "mark", "sl", "mark2", "tp1", "tp2"}

EnsureTPs(b1, pos_qty, mq, bad) ==
    IF pos_qty < 2 * mq
    THEN IF pos_qty < mq
         THEN IF "mark2" \in bad THEN b1
              ELSE Create(b1, TakeProfitMarket, "tp1" \notin bad)
         ELSE Create(b1, TakeProfitLimit(pos_qty), "tp1" \notin bad)
    ELSE LET h1 == HalfDown(pos_qty)
             h2 == pos_qty - h1
             q1 == IF h2 < mq THEN pos_qty ELSE h1
             q2 == IF h2 < mq THEN 0 ELSE h2
         IN  IF ~Created(b1, "tp1" \notin bad) THEN b1
             ELSE LET b2 == Create(b1, TakeProfitLimit(q1), TRUE)
                  IN  IF q2 >= mq
                      THEN Create(b2, TakeProfitLimit(q2), "tp2" \notin bad)
                      ELSE b2

\* a variant that attaches protection only to a position that has neither a
\* stop-loss nor a take-profit
EnsureResultIfBare(b, p, mq, bad) ==
    IF "info" \in bad THEN b
    ELSE
    LET seen    == IF "oo" \in bad THEN {} ELSE DOMAIN b
        has_sl  == \E o \in seen : IsSL(o)
        has_tp  == \E o \in seen : IsTP(o)
        pos_qty == IF "pos" \in bad THEN 0 ELSE p
    IN  IF has_sl \/ has_tp THEN b
        ELSE IF pos_qty <= 0 THEN b
        ELSE IF "mark" \in bad THEN b
        ELSE EnsureTPs(Create(b, StopMarket, "sl" \notin bad), pos_qty, mq, bad)

EnsureResult(b, p, mq, bad) ==
    IF "info" \in bad THEN b
    ELSE
    LET seen    == IF "oo" \in bad THEN {} ELSE DOMAIN b
        has_sl  == \E o \in seen : IsSL(o)
        has_tp  == \E o \in seen : IsTP(o)
        pos_qty == IF "pos" \in bad THEN 0 ELSE p
    IN  IF has_sl /\ has_tp THEN b
        ELSE IF pos_qty <= 0 THEN b
        ELSE IF (~has_sl) /\ "mark" \in bad THEN b
        ELSE LET b1 == IF has_sl THEN b ELSE Create(b, StopMarket, "sl" \notin bad)
             IN  IF has_tp THEN b1 ELSE EnsureTPs(b1, pos_qty, mq, bad)

\* ---- FuturesExecutor.maybe_upgrade_tp_to_trailing ------------------------
UpgradeCalls == {"oo", "hist", "trail"}

\* a variant that leaves the stop-loss in place
UpgradeTargetsTakeProfitOnly(b) == {o \in DOMAIN b : IsTPLimit(o)}

UpgradeTargets(b) == {o \in DOMAIN b : IsTPLimit(o) \/ IsSL(o)}

\* the call goes past both early returns
UpgradeFires(b, h, bad) ==
    /\ "oo" \notin bad
    /\ Count(b, {o \in DOMAIN b : IsTPLimit(o)}) = 1
    /\ (IF "hist" \in bad THEN TRUE ELSE h)

UpgradeResult(b, h, bad, keep) ==
    IF ~UpgradeFires(b, h, bad) THEN b
    ELSE Create((b (-) Restrict(b, UpgradeTargets(b))) (+) keep,
                TrailingStop, "trail" \notin bad)

\* ---- SL/TP attachment of place_stop_limit_with_sl_tp / place_limit_with_sl_tp
AttachCalls == {"mark", "sl", "pos", "tpm", "tp1", "tp2"}

AttachResult(b, p, qty, mq, bad) ==
    LET b1      == Create(b, StopMarket, "sl" \notin bad)
        pos_qty == IF "pos" \in bad THEN qty ELSE p
        h1      == HalfDown(pos_qty)
        h2      == pos_qty - h1
        q1      == IF pos_qty >= 2 * mq
                   THEN (IF h2 < mq \/ h1 < mq THEN pos_qty ELSE h1)
                   ELSE IF pos_qty >= mq THEN pos_qty ELSE 0
        q2      == IF pos_qty >= 2 * mq /\ ~(h2 < mq \/ h1 < mq) THEN h2 ELSE 0
        b2      == IF pos_qty < mq
                   THEN Create(b1, TakeProfitMarket, "tpm" \notin bad) ELSE b1
        b3      == IF q1 >= mq
                   THEN Create(b2, TakeProfitLimit(q1), "tp1" \notin bad) ELSE b2
    IN  IF q2 >= mq THEN Create(b3, TakeProfitLimit(q2), "tp2" \notin bad) ELSE b3

\* ---- the open-order management loop (run.py:814-869) ---------------------
ManageCalls == {"get", "cancel1", "create", "cancel2"}

\* one iteration of `for o in oo`; st: open orders, reprice count,
\* skip_due_entry and the owners of the orders cancelled so far.
\* markSet: an earlier plan of the cycle has bound `mark` (run.py:896), else
\* the retest block raises and is skipped (run.py:858); far: the test of
\* run.py:837 on that earlier symbol's mark and the last scanned symbol's
\* atr15 (run.py:486)
ManageOne(o, st, style, markSet, far, bad) ==
    LET retest  == style = "retest" /\ o.type = "LIMIT" /\ markSet
        doFar   == retest /\ far
        doRp    == retest /\ (~far) /\ st.rp < max_reprice
        canc1   == (doFar \/ doRp) /\ "cancel1" \notin bad
        b1      == IF canc1 THEN st.orders (-) One(o) ELSE st.orders
        repl    == doRp /\ canc1 /\ Created(b1, "create" \notin bad)
        b2      == IF repl THEN Create(b1, EntryOrder("LIMIT", o.origQty, 0), TRUE)
                   ELSE b1
        expired == o.age >= near_expiry
        canc2   == expired /\ (~canc1) /\ "cancel2" \notin bad
        b3      == IF canc2 THEN b2 (-) One(o) ELSE b2
    IN  IF (~IsEntry(o)) \/ "get" \in bad THEN st
        ELSE [orders |-> b3,
              rp     |-> IF repl THEN st.rp + 1 ELSE st.rp,
              skip   |-> st.skip \/ ~expired,
              gone   |-> IF canc1 \/ canc2 THEN st.gone \cup {o.owner} ELSE st.gone]

\* `oo` as a list
RECURSIVE BagSeq(_)
BagSeq(b) ==
    IF b = EmptyBag THEN << >>
    ELSE LET o == CHOOSE x \in DOMAIN b : TRUE
         IN  << o >> \o BagSeq(b (-) One(o))

\* bad: pairs << index in oo, call >> that fail
RECURSIVE ManageLoop(_, _, _, _, _, _, _)
ManageLoop(oo, i, st, style, markSet, far, bad) ==
    IF i > Len(oo) THEN st
    ELSE ManageLoop(oo, i + 1,
                    ManageOne(oo[i], st, style, markSet, far,
                              {k \in ManageCalls : << i, k >> \in bad}),
                    style, markSet, far, bad)

\* ---- fill detection of one polling iteration (execution.py:104-125) ------
\* a variant that waits for the FILLED status
PollFilledStatusOnly(status, getOK, seen) == getOK /\ status = "FILLED"

PollFilled(status, getOK, seen) ==
    (getOK /\ status = "FILLED") \/ seen > 0

\* ---- failing exchange calls ----------------------------------------------
Left == MaxFailures - failures

RECURSIVE UpTo(_, _)
\* the subsets of U with at most n elements
UpTo(U, n) ==
    IF n <= 0 THEN {{}}
    ELSE LET P == UpTo(U, n - 1) IN P \cup {S \cup {x} : S \in P, x \in U}

\* the calls of one step that fail
Faults(calls) == UpTo(calls, Left)

\* the orders among the targets T whose cancel call fails
Keeps(T, n) == {k \in SubBag(T) : BagCardinality(k) <= n}

\* ---- state transitions ---------------------------------------------------
Upd(f, c, v) == [f EXCEPT ![c] = v]

loc == << pos_symbols, plan_qty, entry_status, filled, elapsed, amt, placed,
         stayed_flat, blocked >>

Idle == {"idle", "done", "aborted"}

\* a fresh account; the run flags fix the entry style
Start(style) ==
    /\ positionAmt = 0
    /\ orders = EmptyBag
    /\ hist = FALSE
    /\ tp_filled = FALSE
    /\ min_qty \in MinQtys
    /\ entry_style = style
    /\ reprice_count = 0
    /\ stale = FALSE
    /\ repriced = 0
    /\ drift_far = FALSE
    /\ day_loss = 0
    /\ pc = [c \in Cycles |-> "idle"]
    /\ pos_symbols = [c \in Cycles |-> FALSE]
    /\ plan_qty = [c \in Cycles |-> 0]
    /\ entry_status = [c \in Cycles |-> "NONE"]
    /\ filled = [c \in Cycles |-> FALSE]
    /\ elapsed = [c \in Cycles |-> 0]
    /\ amt = [c \in Cycles |-> -1]
    /\ placed = [c \in Cycles |-> FALSE]
    /\ stayed_flat = [c \in Cycles |-> FALSE]
    /\ blocked = [c \in Cycles |-> FALSE]

\* loop.py: RUN_FLAGS has no --entry-style, the default is "stop"
Init == Start("stop") /\ failures = 0 /\ sizing = NoSizing /\ Unused({})

InitRetest == Start("retest") /\ min_qty = 1 /\ failures = 0 /\ sizing = NoSizing /\ Unused({})

\* an engine step that only moves on and rewrites the open orders;
\* n calls of the step failed
Step(c, l, b, n) ==
    /\ pc' = Upd(pc, c, l)
    /\ orders' = b
    /\ failures' = failures + n
    /\ UNCHANGED << positionAmt, hist, tp_filled, config, day_loss, sizing, calc, drift_far, day, loc >>

\* the orderId held by cycle c is forgotten
Disown(b, c) ==
    LET free(o) == [o EXCEPT !.owner = IF o.owner = c THEN 0 ELSE o.owner]
    IN  [o \in {free(x) : x \in DOMAIN b} |->
            LET mine == [o EXCEPT !.owner = c]
            IN  (IF o \in DOMAIN b THEN b[o] ELSE 0)
                + (IF o.owner = 0 /\ mine \in DOMAIN b THEN b[mine] ELSE 0)]

\* the run of main() ends (return or uncaught exception): its locals die
Finish(c, l, b, n) ==
    /\ pc' = Upd(pc, c, l)
    /\ orders' = Disown(b, c)
    /\ failures' = failures + n
    /\ pos_symbols' = Upd(pos_symbols, c, FALSE)
    /\ plan_qty' = Upd(plan_qty, c, 0)
    /\ entry_status' = Upd(entry_status, c, "NONE")
    /\ filled' = Upd(filled, c, FALSE)
    /\ elapsed' = Upd(elapsed, c, 0)
    /\ amt' = Upd(amt, c, -1)
    /\ placed' = Upd(placed, c, FALSE)
    /\ stayed_flat' = Upd(stayed_flat, c, FALSE)
    /\ blocked' = Upd(blocked, c, FALSE)
    /\ UNCHANGED << positionAmt, hist, tp_filled, config, day_loss, sizing, calc, drift_far, day >>

\* place_*_with_sl_tp returns to main(): its locals (qty, order_id, the
\* status and positionAmt it elapsed) die, `filled` lives on in the result
Return(c, l, b, n) ==
    /\ pc' = Upd(pc, c, l)
    /\ orders' = Disown(b, c)
    /\ failures' = failures + n
    /\ plan_qty' = Upd(plan_qty, c, 0)
    /\ entry_status' = Upd(entry_status, c, "NONE")
    /\ elapsed' = Upd(elapsed, c, 0)
    /\ amt' = Upd(amt, c, -1)
    /\ blocked' = Upd(blocked, c, FALSE)
    /\ UNCHANGED << positionAmt, hist, tp_filled, config, day_loss, sizing, calc, drift_far, day, pos_symbols,
                    filled, placed, stayed_flat >>

\* loop.py starts run.py
StartCycle(c) ==
    /\ pc[c] \in Idle
    /\ pc' = Upd(pc, c, "boot_cleanup")
    /\ stayed_flat' = Upd(stayed_flat, c, positionAmt = 0)
    /\ UNCHANGED << positionAmt, orders, hist, tp_filled, config, day_loss, sizing, calc, drift_far, day,
                    pos_symbols, plan_qty, entry_status, filled, elapsed, amt,
                    placed, blocked, failures >>

\* _cleanup_stale_protection_orders, then go to l
Cleanup(c, l) ==
    \E bad \in Faults({"pos", "oo"}) :
    \E keep \in Keeps(Restrict(orders, CleanupTargets(orders, positionAmt)),
                      Left - Cardinality(bad)) :
       IF l = "done"
       THEN Finish(c, l, CleanupResult(orders, positionAmt, bad, keep),
                   Cardinality(bad) + BagCardinality(keep))
       ELSE Step(c, l, CleanupResult(orders, positionAmt, bad, keep),
                 Cardinality(bad) + BagCardinality(keep))

\* run.py:160
BootCleanup(c) ==
    /\ pc[c] = "boot_cleanup"
    /\ Cleanup(c, "boot_protect")

\* run.py:163-210
BootProtect(c) ==
    /\ pc[c] = "boot_protect"
    /\ \E bad \in Faults({"pos_boot", "klines"} \cup EnsureCalls) :
          Step(c, "prelude",
               IF "pos_boot" \notin bad /\ "klines" \notin bad /\ positionAmt # 0
               THEN EnsureResult(orders, positionAmt, min_qty, bad)
               ELSE orders,
               Cardinality(bad))

\* run.py --protect is started
StartProtect(c) ==
    /\ pc[c] \in Idle
    /\ pc' = Upd(pc, c, "protect_cleanup")
    /\ UNCHANGED << positionAmt, orders, hist, tp_filled, config, day_loss, sizing, calc,
                    drift_far, day, loc, failures >>

\* run.py:160 in a --protect run
ProtectCleanup(c) ==
    /\ pc[c] = "protect_cleanup"
    /\ Cleanup(c, "protect_boot")

\* run.py:162-210 in a --protect run: the boot pass where --execute is given
\* as well, nothing otherwise
ProtectBoot(c) ==
    /\ pc[c] = "protect_boot"
    /\ \E execute \in BOOLEAN :
       \E bad \in Faults({"pos_boot", "klines"} \cup EnsureCalls) :
          /\ ~execute => bad = {}
          /\ Step(c, "protect",
                  IF execute /\ "pos_boot" \notin bad /\ "klines" \notin bad
                        /\ positionAmt # 0
                  THEN EnsureResult(orders, positionAmt, min_qty, bad)
                  ELSE orders,
                  Cardinality(bad))

\* a --protect run that goes on into the cycle
ProtectOnlyScans(c) ==
    /\ pc[c] = "protect"
    /\ Step(c, "prelude", orders, 0)

\* run.py:233-283: ensure_protection for the position, and main() returns
ProtectOnly(c) ==
    /\ pc[c] = "protect"
    /\ \E bad \in Faults({"pos", "klines"} \cup EnsureCalls) :
          Finish(c, "done",
                 IF "pos" \notin bad /\ "klines" \notin bad /\ positionAmt # 0
                 THEN EnsureResult(orders, positionAmt, min_qty, bad)
                 ELSE orders,
                 Cardinality(bad))

\* run.py:325, 407: trend wait, daily loss cap
EarlyReturn(c) ==
    /\ pc[c] = "prelude"
    /\ Finish(c, "done", orders, 0)

\* run.py:327 (DayState is loaded) and run.py:418-427
Guards(c) ==
    /\ pc[c] = "prelude"
    /\ can_trade_today
    /\ \E bad \in Faults({"pos"}) :
          /\ pos_symbols' = Upd(pos_symbols, c, bad = {} /\ positionAmt > 0)
          /\ failures' = failures + Cardinality(bad)
    /\ pc' = Upd(pc, c, "cleanup2")
    /\ reprice_count' = (IF stale THEN 0 ELSE reprice_count)
    /\ stale' = FALSE
    /\ UNCHANGED << positionAmt, orders, hist, tp_filled, config, day_loss, sizing, calc, drift_far, repriced, plan_qty,
                    entry_status, filled, elapsed, amt, placed, stayed_flat,
                    blocked >>

\* run.py:430
ScanCleanup(c) ==
    /\ pc[c] = "cleanup2"
    /\ Cleanup(c, "scan")

\* run.py:434-741: the scan either yields a plan for the symbol or not;
\* the run returns when there is no plan at all or no free slot
ScanNoPlans(c) ==
    /\ pc[c] = "scan"
    /\ Finish(c, "done", orders, 0)

\* run.py:442: api.klines has no try
ScanFails(c) ==
    /\ pc[c] = "scan"
    /\ Left > 0
    /\ Finish(c, "aborted", orders, 1)

\* plans exist, none for this symbol
ScanOtherPlans(c) ==
    /\ pc[c] = "scan"
    /\ Step(c, "final", orders, 0)

\* run.py:436, 810
ScanPlan(c) ==
    /\ pc[c] = "scan"
    /\ ~pos_symbols[c]
    /\ \E q \in PlanQtys : plan_qty' = Upd(plan_qty, c, q)
    /\ drift_far' \in (IF entry_style = "retest" THEN BOOLEAN ELSE {FALSE})
    /\ pc' = Upd(pc, c, "manage")
    /\ UNCHANGED << positionAmt, orders, hist, tp_filled, config, day_loss, sizing, calc, day,
                    pos_symbols, entry_status, filled, elapsed, amt, placed,
                    stayed_flat, blocked, failures >>

\* the exchange closes the entry orders held by `owners`
Closed(owners, st) ==
    [c \in Cycles |-> IF c \in owners THEN st ELSE entry_status[c]]

\* run.py:810-875; markSet: an earlier plan of the loop has assigned `mark`;
\* far: drift_atr > max_drift_atr or rr_cur < 1.0
Manage(c) ==
    /\ pc[c] = "manage"
    /\ blocked' = Upd(blocked, c, \E o \in DOMAIN orders :
                                      IsEntry(o) /\ o.age < near_expiry)
    /\ drift_far' = FALSE
    /\ \/ /\ Left > 0
          /\ pc' = Upd(pc, c, "poscheck")
          /\ failures' = failures + 1
          /\ UNCHANGED << positionAmt, orders, hist, tp_filled, config, day_loss, sizing, calc, day,
                          pos_symbols, plan_qty, entry_status, filled, elapsed,
                          amt, placed, stayed_flat >>
       \/ \E markSet \in BOOLEAN, far \in BOOLEAN :
          LET oo == BagSeq(orders)
              ix == {i \in 1..Len(oo) : IsEntry(oo[i])}
          IN  \E bad \in Faults(ix \X ManageCalls) :
                 LET r == ManageLoop(oo, 1,
                                     [orders |-> orders, rp |-> reprice_count,
                                      skip |-> FALSE, gone |-> {}],
                                     entry_style, markSet, far, bad)
                 IN  /\ orders' = r.orders
                     /\ reprice_count' = r.rp
                     /\ repriced' = repriced + (r.rp - reprice_count)
                     /\ stale' = stale
                     /\ entry_status' = Closed(r.gone, "CANCELED")
                     /\ pc' = Upd(pc, c, IF r.skip THEN "final" ELSE "poscheck")
                     /\ failures' = failures + Cardinality(bad)
                     /\ UNCHANGED << positionAmt, hist, tp_filled, config, day_loss, sizing, calc, pos_symbols,
                                     plan_qty, filled, elapsed, amt, placed,
                                     stayed_flat >>

\* run.py:877-885
PositionCheck(c) ==
    /\ pc[c] = "poscheck"
    /\ \E bad \in Faults({"pos"}) :
          /\ pc' = Upd(pc, c, IF bad = {} /\ positionAmt > 0
                              THEN "final" ELSE "setup")
          /\ failures' = failures + Cardinality(bad)
    /\ blocked' = Upd(blocked, c, blocked[c] \/ positionAmt # 0)
    /\ UNCHANGED << positionAmt, orders, hist, tp_filled, config, day_loss, sizing, calc, drift_far, day,
                    pos_symbols, plan_qty, entry_status, filled, elapsed, amt,
                    placed, stayed_flat >>

\* run.py:887-898: set_leverage is the one call here without a try
Setup(c) ==
    /\ pc[c] = "setup"
    /\ \E bad \in Faults({"margin", "leverage", "filters", "mark"}) :
          IF "leverage" \in bad THEN Finish(c, "aborted", orders, Cardinality(bad))
          ELSE Step(c, "place", orders, Cardinality(bad))

\* a variant in which a rejected entry order raises out of the call
PlaceEntryRaises(c) ==
    /\ pc[c] = "place"
    /\ \E bad \in Faults({"info", "create"}) :
          IF "info" \in bad \/ ~Created(orders, "create" \notin bad)
          THEN Finish(c, "aborted", orders, Cardinality(bad))
          ELSE /\ orders' = Create(orders,
                                   EntryOrder(IF entry_style = "stop" THEN "STOP" ELSE "LIMIT",
                                              Max(plan_qty[c], min_qty), c),
                                   TRUE)
               /\ entry_status' = Upd(entry_status, c, "NEW")
               /\ placed' = Upd(placed, c, TRUE)
               /\ elapsed' = Upd(elapsed, c, 0)
               /\ blocked' = Upd(blocked, c, FALSE)
               /\ pc' = Upd(pc, c, "poll")
               /\ UNCHANGED << positionAmt, hist, tp_filled, config, day_loss, sizing, calc, drift_far, day,
                               pos_symbols, plan_qty, filled, amt,
                               stayed_flat, failures >>

\* execution.py:69-98 / 275-301: the entry order itself
PlaceEntry(c) ==
    /\ pc[c] = "place"
    /\ \E bad \in Faults({"info", "create"}) :
          IF "info" \in bad THEN Finish(c, "aborted", orders, Cardinality(bad))
          ELSE IF ~Created(orders, "create" \notin bad)
          THEN Return(c, "ensure", orders, Cardinality(bad))
          ELSE /\ orders' = Create(orders,
                                   EntryOrder(IF entry_style = "stop" THEN "STOP" ELSE "LIMIT",
                                              Max(plan_qty[c], min_qty), c),
                                   TRUE)
               /\ entry_status' = Upd(entry_status, c, "NEW")
               /\ placed' = Upd(placed, c, TRUE)
               /\ elapsed' = Upd(elapsed, c, 0)
               /\ blocked' = Upd(blocked, c, FALSE)
               /\ pc' = Upd(pc, c, "poll")
               /\ UNCHANGED << positionAmt, hist, tp_filled, config, day_loss, sizing, calc, drift_far, day,
                               pos_symbols, plan_qty, filled, amt,
                               stayed_flat, failures >>

\* execution.py:103-126 / 305-325: one iteration of the polling loop;
\* late: the time its two queries took; it ends with time.sleep(2)
Poll(c) ==
    /\ pc[c] = "poll"
    /\ elapsed[c] < wait_fill_seconds
    /\ \E bad \in Faults({"get", "pos"}), late \in 0..MaxLatency :
          LET stFilled  == "get" \notin bad /\ entry_status[c] = "FILLED"
              seen      == IF stFilled \/ "pos" \in bad THEN -1 ELSE positionAmt
              nowFilled == PollFilled(entry_status[c], "get" \notin bad, seen)
          IN  /\ amt' = Upd(amt, c, seen)
              /\ filled' = Upd(filled, c, nowFilled)
              /\ pc' = Upd(pc, c, IF nowFilled THEN "attach" ELSE "poll")
              /\ elapsed' = Upd(elapsed, c, IF nowFilled THEN 0
                                             ELSE elapsed[c] + late + 1)
              /\ failures' = failures + Cardinality(bad)
    /\ UNCHANGED << positionAmt, orders, hist, tp_filled, config, day_loss, sizing, calc, drift_far, day,
                    pos_symbols, plan_qty, entry_status, placed, stayed_flat,
                    blocked >>

\* a variant that cancels the entry order when the deadline has passed
PollTimeoutCancels(c) ==
    /\ pc[c] = "poll"
    /\ elapsed[c] >= wait_fill_seconds
    /\ \E o \in DOMAIN orders :
          /\ o.owner = c
          /\ Return(c, "ensure", orders (-) One(o), 0)

\* execution.py:103, 128-129: `while time.time() < deadline` ends the loop
\* without a fill
PollTimeout(c) ==
    /\ pc[c] = "poll"
    /\ elapsed[c] >= wait_fill_seconds
    /\ Return(c, "ensure", orders, 0)

\* execution.py:129-272 / 328-461: the mark price read has no try
Attach(c) ==
    /\ pc[c] = "attach"
    /\ \E bad \in Faults(AttachCalls) :
          IF "mark" \in bad THEN Finish(c, "aborted", orders, Cardinality(bad))
          ELSE Return(c, "ensure",
                      AttachResult(orders, positionAmt, plan_qty[c], min_qty, bad),
                      Cardinality(bad))

\* run.py:918-922
Ensure(c) ==
    /\ pc[c] = "ensure"
    /\ \E bad \in Faults(EnsureCalls) :
          Step(c, "upgrade", EnsureResult(orders, positionAmt, min_qty, bad),
               Cardinality(bad))

\* run.py:923-927
Upgrade(c) ==
    /\ pc[c] = "upgrade"
    /\ \E bad \in Faults(UpgradeCalls) :
       \E keep \in Keeps(Restrict(orders, UpgradeTargets(orders)),
                         Left - Cardinality(bad)) :
          Step(c, "flatcheck", UpgradeResult(orders, hist, bad, keep),
               Cardinality(bad) + BagCardinality(keep))

\* run.py:928-932
FlatCheck(c) ==
    /\ pc[c] = "flatcheck"
    /\ \E bad \in Faults({"pos", "oo"}) :
       \E keep \in Keeps(Restrict(orders, FlatTargets(orders)),
                         Left - Cardinality(bad)) :
          Step(c, "final", CancelIfFlatResult(orders, positionAmt, bad, keep),
               Cardinality(bad) + BagCardinality(keep))

\* run.py:959-960
FinalCleanup(c) ==
    /\ pc[c] = "final"
    /\ Cleanup(c, "done")

\* ---- the exchange --------------------------------------------------------
eng == << config, day, drift_far, pc, pos_symbols, plan_qty, filled, elapsed,
          amt, placed, blocked, failures >>

\* an entry order trades k steps
FillEntry ==
    \E o \in DOMAIN orders :
       /\ IsEntry(o)
       /\ \E k \in 1..(o.origQty - o.executedQty) :
             /\ positionAmt + k <= MaxPos
             /\ positionAmt' = positionAmt + k
             /\ IF k = o.origQty - o.executedQty
                THEN /\ orders' = orders (-) One(o)
                     /\ entry_status' = Closed({o.owner}, "FILLED")
                ELSE /\ orders' = (orders (-) One(o)) (+)
                                  One([o EXCEPT !.executedQty = @ + k, !.age = 0])
                     /\ entry_status' = Closed({o.owner}, "PARTIALLY_FILLED")
       /\ stayed_flat' = [c \in Cycles |-> FALSE]
       /\ UNCHANGED << hist, tp_filled, eng, day_loss, sizing, calc >>

\* a reduce-only LIMIT take-profit trades
FillTakeProfit ==
    \E o \in DOMAIN orders :
       /\ IsTPLimit(o)
       /\ positionAmt > 0
       /\ positionAmt' = positionAmt - Min(o.origQty, positionAmt)
       /\ orders' = orders (-) One(o)
       /\ hist' = TRUE
       /\ tp_filled' = (positionAmt' > 0)
       /\ UNCHANGED << entry_status, stayed_flat, eng, day_loss, sizing, calc >>

\* a closePosition stop, take-profit-market or trailing stop triggers
TriggerClose ==
    \E o \in DOMAIN orders :
       /\ o.closePosition
       /\ positionAmt > 0
       /\ positionAmt' = 0
       /\ orders' = orders (-) One(o)
       /\ tp_filled' = FALSE
       /\ UNCHANGED << hist, entry_status, stayed_flat, eng, day_loss, sizing, calc >>

\* the closePosition stop-loss triggers: the trade loses its risk, 1 R
StopOut ==
    \E o \in DOMAIN orders :
       /\ IsSL(o)
       /\ positionAmt > 0
       /\ day_loss < max_daily_loss_r
       /\ positionAmt' = 0
       /\ orders' = orders (-) One(o)
       /\ tp_filled' = FALSE
       /\ day_loss' = day_loss + 1
       /\ UNCHANGED << hist, entry_status, stayed_flat, eng, sizing, calc >>

RECURSIVE Aged(_)
\* every entry order is one bar older
Aged(b) ==
    IF b = EmptyBag THEN EmptyBag
    ELSE LET o == CHOOSE x \in DOMAIN b : TRUE
             n == IF IsEntry(o) /\ o.age < near_expiry THEN [o EXCEPT !.age = @ + 1] ELSE o
         IN  One(n) (+) Aged(b (-) One(o))

\* a 15-minute bar passes
BarCloses ==
    /\ \E o \in DOMAIN orders : IsEntry(o) /\ o.age < near_expiry
    /\ orders' = Aged(orders)
    /\ UNCHANGED << positionAmt, hist, tp_filled, entry_status, stayed_flat,
                    eng, day_loss, sizing, calc >>

\* the filled take-profit leaves the last 30 orders of the history
HistoryRolls ==
    /\ hist
    /\ hist' = FALSE
    /\ UNCHANGED << positionAmt, orders, tp_filled, entry_status, stayed_flat,
                    eng, day_loss, sizing, calc >>

\* UTC day rollover: a running process keeps the date and the counts it
\* loaded and saves them under that date; the next DayState._load discards
\* a record of another date
NewDay ==
    /\ ~stale
    /\ stale' = TRUE
    /\ repriced' = 0
    /\ day_loss' = 0
    /\ UNCHANGED << positionAmt, orders, hist, tp_filled, config, sizing, calc, drift_far, reprice_count,
                    pc, loc, failures >>

Exchange ==
    \/ FillEntry
    \/ FillTakeProfit
    \/ TriggerClose
    \/ BarCloses
    \/ HistoryRolls

Engine(c) ==
    \/ StartCycle(c)
    \/ BootCleanup(c)
    \/ BootProtect(c)
    \/ EarlyReturn(c)
    \/ Guards(c)
    \/ ScanCleanup(c)
    \/ ScanNoPlans(c)
    \/ ScanFails(c)
    \/ ScanOtherPlans(c)
    \/ ScanPlan(c)
    \/ Manage(c)
    \/ PositionCheck(c)
    \/ Setup(c)
    \/ PlaceEntry(c)
    \/ Poll(c)
    \/ PollTimeout(c)
    \/ Attach(c)
    \/ Ensure(c)
    \/ Upgrade(c)
    \/ FlatCheck(c)
    \/ FinalCleanup(c)

\* cycles run one after the other (loop.py waits for run.py to exit)
Next == Engine(1) \/ Exchange

Spec == Init /\ [][Next]_vars

\* the cycles of the loop and, between them, runs with --protect
ProtectRun(c) ==
    \/ StartProtect(c)
    \/ ProtectCleanup(c)
    \/ ProtectBoot(c)
    \/ ProtectOnly(c)

NextProtect == Engine(1) \/ ProtectRun(1) \/ Exchange

\* LOT_SIZE minQty is one step, and one exchange call may fail
InitProtect ==
    /\ Start("stop")
    /\ min_qty = 1
    /\ failures = MaxFailures - 1
    /\ sizing = NoSizing
    /\ Unused({})

SpecProtect == InitProtect /\ [][NextProtect]_vars

\* the same with --entry-style retest, where re-pricing counts per UTC day
NextRetest == Engine(1) \/ Exchange \/ NewDay

SpecRetest == InitRetest /\ [][NextRetest]_vars

\* two runs of run.py at once (two loop.py instances, or a manual run next
\* to the loop); no exchange call fails
InitOverlap ==
    /\ Start("stop")
    /\ min_qty = 1
    /\ failures = MaxFailures
    /\ sizing = NoSizing /\ Unused({})

Overlap(c) ==
    \/ StartCycle(c)
    \/ BootCleanup(c)
    \/ BootProtect(c)
    \/ Guards(c)
    \/ ScanCleanup(c)
    \/ ScanPlan(c)
    \/ Manage(c)
    \/ PositionCheck(c)
    \/ Setup(c)
    \/ PlaceEntry(c)
    \/ Poll(c)
    \/ PollTimeout(c)
    \/ Attach(c)
    \/ Ensure(c)
    \/ Upgrade(c)
    \/ FlatCheck(c)
    \/ FinalCleanup(c)

NextOverlap == Overlap(1) \/ Overlap(2) \/ FillEntry \/ TriggerClose

SpecOverlap == InitOverlap /\ [][NextOverlap]_vars

\* one day of cycles in which trades are stopped out; no exchange call fails
InitBreaker ==
    /\ Start("stop")
    /\ min_qty = 1
    /\ failures = MaxFailures
    /\ sizing = NoSizing /\ Unused({})

NextBreaker == Overlap(1) \/ EarlyReturn(1) \/ FillEntry \/ StopOut

SpecBreaker == InitBreaker /\ [][NextBreaker]_vars

\* cycles that never stop coming: loop.py starts run.py again whenever it has
\* exited, every exchange call returns or raises, and the polling loop has a
\* deadline, so a step of the engine that can be taken is taken
InitLive ==
    /\ Start("stop")
    /\ min_qty = 1
    /\ failures = 0
    /\ sizing = NoSizing /\ Unused({})

NextLive == Engine(1) \/ FillEntry \/ FillTakeProfit \/ TriggerClose

SpecLive == InitLive /\ [][NextLive]_vars /\ WF_vars(Engine(1))

\* the sizing of one plan, for every input
InitPlan ==
    /\ Start("stop")
    /\ min_qty = 1
    /\ failures = MaxFailures
    /\ sizing \in [equity : Equities, entry : Entries, qty : Sizes, lev : Levs,
                   atr_percent : AtrPercents, lev_cap_base : BaseCaps,
                   lev_cap_dyn : {0}, sized : {FALSE}]
    /\ Unused({})

\* run.py:409-411 and 593-609
SizePlan ==
    /\ ~sizing.sized
    /\ LET cap == dynamic_leverage_cap(sizing.atr_percent, sizing.lev_cap_base)
       IN  sizing' = [sizing EXCEPT
                        !.lev_cap_dyn = cap,
                        !.qty = PlanQty(sizing.equity, sizing.entry, sizing.qty,
                                        sizing.lev, cap),
                        !.sized = TRUE]
    /\ UNCHANGED << positionAmt, orders, hist, tp_filled, config, day, drift_far,
                    day_loss, pc, loc, failures, calc >>

SpecPlan == InitPlan /\ [][SizePlan]_vars

\* all that a calculation leaves alone
cycle == << positionAmt, orders, hist, tp_filled, config, day, drift_far,
           day_loss, pc, loc, failures, sizing >>

\* the calculations of the executor and of the risk classes, one at a time,
\* for every input: the variables of the one at hand are drawn, the others
\* are left alone
InitCalc ==
    /\ Start("stop")
    /\ min_qty = 1
    /\ failures = MaxFailures
    /\ sizing = NoSizing
    /\ \/ /\ quant \in [value : Values, step : Steps, mode : Modes, done : {0},
                         q1 : {0}, q2 : {0}]
          /\ Unused({"quant"})
       \/ /\ entry_order \in [side : Sides, limit : Limits, tick : Ticks, qty : Qtys,
                               step : Ticks, min_qty : 1 .. MaxMinQty,
                               equity : SomeEquities, submitted : {FALSE},
                               price : {0}, quantity : {0}]
          /\ Unused({"entry_order"})
       \/ /\ tp_split \in [pos : 1 .. MaxSteps, min_qty : 1 .. MaxMinQty, step : Ticks,
                            entry : {<< >>}, ensure : {<< >>}]
          /\ Unused({"tp_split"})
       \/ /\ prot \in {[t EXCEPT !.price = t.mark + Sign(t) * t.d_price,
                                  !.sl = t.mark - Sign(t) * t.d_sl,
                                  !.tp1 = t.mark + Sign(t) * t.d_tp1,
                                  !.tp2 = t.mark + Sign(t) * (t.d_tp1 + t.d_tp2)] :
                        t \in Plans}
          /\ Unused({"prot"})
       \/ /\ plan \in {[c EXCEPT !.tick = TickOf(c.entry),
                                  !.sl_struct = IF c.side = "LONG"
                                                THEN FSub(c.entry, Min(c.d_struct, c.entry))
                                                ELSE FAdd(c.entry, c.d_struct)] :
                        c \in Candidates}
          /\ Unused({"plan"})
       \/ /\ risk \in [equity : RiskEquities, r_per_trade : RPerTrade,
                        losing_streak : {0}, results : {<< >>}, stop_distance : {0},
                        qty : {0}, sized : {FALSE}]
          /\ Unused({"risk"})
       \/ /\ bar_scan \in [bars : AllBars, done : {FALSE}, plans : {<< >>}]
          /\ Unused({"bar_scan"})

\* _round_step of a raw value, as in execution.py:70, 74, 190
Quantize ==
    /\ quant.done = 0
    /\ \E mode \in Modes :
          quant' = [quant EXCEPT !.done = 1,
                                 !.q1 = round_step(quant.value, quant.step, mode)]
    /\ UNCHANGED << cycle, account, bar_scan, day_state, entry_order, tp_split, prot, plan, risk >>

\* _round_step of a quantized value, as _format_by_step does at
\* execution.py:76, 247, 260
Requantize ==
    /\ quant.done = 1
    /\ quant' = [quant EXCEPT !.done = 2,
                              !.q2 = round_step(quant.q1, quant.step, quant.mode)]
    /\ UNCHANGED << cycle, account, bar_scan, day_state, entry_order, tp_split, prot, plan, risk >>

\* futures_create_order of the entry (execution.py:85-95, 288-295)
SubmitEntry ==
    /\ ~entry_order.submitted
    /\ entry_order' = [entry_order EXCEPT !.submitted = TRUE,
                                          !.price = limit_s(entry_order),
                                          !.quantity = qty_s(entry_order)]
    /\ UNCHANGED << cycle, account, bar_scan, day_state, quant, tp_split, prot, plan, risk >>

\* the take-profit orders of the entry path, once the entry has filled
EntryTPs ==
    /\ tp_split.step # 0
    /\ tp_split.entry = << >>
    /\ tp_split' = [tp_split EXCEPT !.entry = entry_tps(tp_split)]
    /\ UNCHANGED << cycle, account, bar_scan, day_state, quant, entry_order, prot, plan, risk >>

\* the take-profit orders of ensure_protection where has_tp is false
EnsureTPOrders ==
    /\ tp_split.step # 0
    /\ tp_split.ensure = << >>
    /\ tp_split' = [tp_split EXCEPT !.ensure = ensure_tps(tp_split)]
    /\ UNCHANGED << cycle, account, bar_scan, day_state, quant, entry_order, prot, plan, risk >>

\* the stop and the targets of a position go out: STOP_MARKET, and two LIMITs
\* or, for a position below the minimum quantity, one TAKE_PROFIT_MARKET
Protect ==
    /\ ~prot.placed
    /\ prot' = [prot EXCEPT !.placed = TRUE,
                            !.stop = sl_s(prot),
                            !.targets = IF prot.small THEN << tp_mkt_s(prot) >>
                                        ELSE tp_limits(prot)]
    /\ UNCHANGED << cycle, account, bar_scan, day_state, quant, entry_order, tp_split, plan, risk >>

\* run.py:541-558, 650-665: the stop of the candidate, and the candidate is
\* dropped (`continue`) where the stop distance is not valid
PlanStop ==
    /\ plan.stage = "stop"
    /\ LET sl == stop_of(plan)
       IN  plan' = [plan EXCEPT !.sl = sl,
                                !.stage = IF ok_dist(plan, sl) THEN "targets"
                                          ELSE "rejected"]
    /\ UNCHANGED << cycle, account, bar_scan, day_state, quant, entry_order, tp_split, prot, risk >>

\* run.py:559-576 and 610, 666-683 and 713: the targets, whatever
\* smc_targets_long / smc_targets_short return, on either side of the entry,
\* and the plan is appended
PlanTargets ==
    /\ plan.stage = "targets"
    /\ \E d1 \in RawDists, d2 \in RawDists, s1 \in Sides, s2 \in Sides :
          LET raw1 == Away([plan EXCEPT !.side = s1], d1)
              raw2 == Away([plan EXCEPT !.side = s2, !.entry = raw1], d2)
              t1   == t1_of(plan, raw1)
          IN  plan' = [plan EXCEPT !.t1 = t1, !.t2 = t2_of(plan, t1, raw2),
                                   !.stage = "emitted"]
    /\ UNCHANGED << cycle, account, bar_scan, day_state, quant, entry_order, tp_split, prot, risk >>

\* RiskEngine.on_trade_result (risk.py:27-32)
OnTradeResult ==
    /\ risk.equity # 0
    /\ Len(risk.results) < MaxResults
    /\ \E r_result \in {0 - 1, 0, 1} :
          risk' = [risk EXCEPT !.losing_streak = on_trade_result(risk, r_result),
                               !.results = Append(risk.results, r_result),
                               !.sized = FALSE]
    /\ UNCHANGED << cycle, account, bar_scan, day_state, quant, entry_order, tp_split, prot, plan >>

\* RiskEngine.position_size (risk.py:14-22)
PositionSize ==
    /\ risk.equity # 0
    /\ \E stop_distance \in StopDistances :
          risk' = [risk EXCEPT !.stop_distance = stop_distance,
                               !.qty = position_size(risk, stop_distance),
                               !.sized = TRUE]
    /\ UNCHANGED << cycle, account, bar_scan, day_state, quant, entry_order, tp_split, prot, plan >>

\* no process is alive yet, the file is any of Files, two hours before
\* midnight
InitDay ==
    /\ Start("stop")
    /\ min_qty = 1
    /\ failures = MaxFailures
    /\ sizing = NoSizing
    /\ day_state \in {[NoDayState EXCEPT !.now = MaxNow - 3, !.file = f, !.ops = 0] :
                         f \in Files(MaxNow - 3)}
    /\ Unused({"day_state"})

\* the clock passes an hour
Tick ==
    /\ day_state.ops < MaxOps
    /\ day_state.now < MaxNow
    /\ day_state' = [day_state EXCEPT !.now = @ + 1, !.loaded = FALSE,
                                      !.scan = NoScan]
    /\ UNCHANGED << cycle, account, bar_scan, quant, entry_order, tp_split, prot, plan, risk >>

\* DayState() (run.py:327): a process starts, with the state of __init__ and
\* what _load finds
NewDayState ==
    /\ day_state.ops < MaxOps
    /\ \E mode \in {"strict", "relaxed"} :
          day_state' = [day_state EXCEPT
                           !.alive = TRUE,
                           !.state = load(day_state.file, Default(day_state.now),
                                          day_state.now),
                           !.loaded = TRUE,
                           !.mode = mode, !.phase = "scan", !.planned = {},
                           !.scan = NoScan, !.incs = 0]
    /\ UNCHANGED << cycle, account, bar_scan, quant, entry_order, tp_split, prot, plan, risk >>

\* every mutation ends in save(): the file holds the whole state
Saved(st) ==
    [day_state EXCEPT !.state = st, !.file = save(st),
                      !.saved_on = Date(day_state.now), !.loaded = FALSE,
                      !.ops = @ + 1, !.stopped_on = 0 - 1, !.scan = NoScan]

CanMutate == day_state.alive /\ day_state.ops < MaxOps

AddR ==
    /\ CanMutate
    /\ \E r \in {0 - 1, 1} : day_state' = Saved(add_R(day_state.state, r))
    /\ UNCHANGED << cycle, account, bar_scan, quant, entry_order, tp_split, prot, plan, risk >>

ResetHour ==
    /\ CanMutate
    /\ Hour(day_state.now) # day_state.state["hour"]
    /\ day_state' = Saved(reset_hour(day_state.state, day_state.now))
    /\ UNCHANGED << cycle, account, bar_scan, quant, entry_order, tp_split, prot, plan, risk >>

IncSignals ==
    /\ CanMutate
    /\ day_state' = Saved(inc_signals(day_state.state))
    /\ UNCHANGED << cycle, account, bar_scan, quant, entry_order, tp_split, prot, plan, risk >>

SetCooldown ==
    /\ CanMutate
    /\ \E symbol \in DaySymbols :
          LET until == day_state.now + same_coin_cooldown
          IN day_state' = [Saved(set_cooldown(day_state.state, symbol, until))
                              EXCEPT !.cool = Put(@, symbol, until)]
    /\ UNCHANGED << cycle, account, bar_scan, quant, entry_order, tp_split, prot, plan, risk >>

IncReprice ==
    /\ CanMutate
    /\ \E symbol \in DaySymbols :
          day_state' = Saved(inc_reprice(day_state.state, symbol))
    /\ UNCHANGED << cycle, account, bar_scan, quant, entry_order, tp_split, prot, plan, risk >>

ResetReprice ==
    /\ CanMutate
    /\ \E symbol \in DaySymbols :
          /\ symbol \in DOMAIN day_state.state["reprice_count"]
          /\ day_state' = Saved(reset_reprice(day_state.state, symbol))
    /\ UNCHANGED << cycle, account, bar_scan, quant, entry_order, tp_split, prot, plan, risk >>

\* the process stops inside save() (risk_state.py:36-37), between open(path,
\* "w"), which empties the file, and the end of json.dump: the file holds
\* nothing or the head of a record, neither of which parses
StopInSave ==
    /\ CanMutate
    /\ \E st \in {inc_signals(day_state.state)}
                  \cup {inc_reprice(day_state.state, symbol) : symbol \in DaySymbols} :
          day_state' = [day_state EXCEPT !.alive = FALSE, !.file = Corrupt,
                                         !.saved_on = 0 - 1, !.loaded = FALSE,
                                         !.ops = @ + 1,
                                         !.stopped_on = Date(day_state.now),
                                         !.pre = day_state.file, !.post = st]
    /\ UNCHANGED << cycle, account, bar_scan, quant, entry_order, tp_split, prot, plan, risk >>

\* the look at one symbol of the universe (run.py:499-505, and the bar scan
\* that finds a signal or none): in relaxed mode can_signal, which resets the
\* hour and saves where the hour has changed, and on_cooldown
ScanSymbol ==
    /\ CanMutate
    /\ day_state.phase = "scan"
    /\ \E symbol \in DaySymbols, signal \in BOOLEAN :
          LET st == day_state.state
              changed == day_state.mode = "relaxed" /\ Hour(day_state.now) # st["hour"]
              st1 == IF changed THEN reset_hour(st, day_state.now) ELSE st
              d1 == IF changed THEN Saved(st1) ELSE [day_state EXCEPT !.loaded = FALSE]
              outcome ==
                  IF day_state.mode = "relaxed"
                        /\ ~(st1["signals_this_hour"] < hourly_signal_cap)
                  THEN "capped"
                  ELSE IF day_state.mode = "relaxed"
                             /\ on_cooldown(st1, symbol, day_state.now)
                  THEN "cooldown"
                  ELSE IF signal THEN "plan" ELSE "no signal"
          IN day_state' =
                 [d1 EXCEPT !.scan = [symbol |-> symbol,
                                      capped |-> ~changed /\ st["signals_this_hour"]
                                                              >= hourly_signal_cap,
                                      changed |-> changed,
                                      outcome |-> outcome],
                            !.planned = IF outcome = "plan" THEN @ \cup {symbol} ELSE @]
    /\ UNCHANGED << cycle, account, bar_scan, quant, entry_order, tp_split, prot, plan, risk >>

RECURSIVE set_cooldowns(_, _, _)
\* run.py:956-957
set_cooldowns(state, symbols, until) ==
    IF symbols = {} THEN state
    ELSE LET symbol == CHOOSE x \in symbols : TRUE
         IN set_cooldowns(set_cooldown(state, symbol, until), symbols \ {symbol}, until)

\* run.py:953-957: the plans have been executed; in relaxed mode the signal
\* counter and the cooldowns
FinishCycle ==
    /\ CanMutate
    /\ day_state.phase = "scan"
    /\ day_state.planned # {}
    /\ LET until == day_state.now + same_coin_cooldown
           st == set_cooldowns(inc_signals(day_state.state), day_state.planned, until)
       IN day_state' =
              IF day_state.mode = "relaxed"
              THEN [Saved(st) EXCEPT
                       !.phase = "done", !.incs = 1, !.alive = FALSE,
                       !.cool = [x \in DOMAIN @ \cup day_state.planned |->
                                    IF x \in day_state.planned THEN until ELSE @[x]]]
              ELSE [day_state EXCEPT !.phase = "done", !.alive = FALSE,
                                     !.loaded = FALSE, !.scan = NoScan]
    /\ UNCHANGED << cycle, account, bar_scan, quant, entry_order, tp_split, prot, plan, risk >>

\* run.py:888: set_leverage raises while the plans are executed, and main()
\* ends there
AbortCycle ==
    /\ day_state.alive
    /\ day_state.phase = "scan"
    /\ day_state.planned # {}
    /\ day_state' = [day_state EXCEPT !.phase = "done", !.alive = FALSE,
                                      !.loaded = FALSE, !.scan = NoScan]
    /\ UNCHANGED << cycle, account, bar_scan, quant, entry_order, tp_split, prot, plan, risk >>

\* the scan of one symbol in one direction: one plan from the bar where the
\* scan stops (found = True; break), none where no bar qualifies
ScanBarsOf ==
    /\ ~bar_scan.done
    /\ bar_scan' = [bar_scan EXCEPT
                       !.done = TRUE,
                       !.plans = IF bar_of_plan(bar_scan.bars) = 0 THEN << >>
                                 ELSE << bar_of_plan(bar_scan.bars) >>]
    /\ UNCHANGED << cycle, account, quant, entry_order, tp_split, prot, plan, risk,
                    day_state >>

NextCalc ==
    \/ Quantize
    \/ Requantize
    \/ SubmitEntry
    \/ EntryTPs
    \/ EnsureTPOrders
    \/ Protect
    \/ PlanStop
    \/ PlanTargets
    \/ OnTradeResult
    \/ PositionSize
    \/ ScanBarsOf

SpecCalc == InitCalc /\ [][NextCalc]_vars

\* an account with no position and no order
InitSlots ==
    /\ Start("stop")
    /\ min_qty = 1
    /\ failures = MaxFailures
    /\ sizing = NoSizing
    /\ account = NoAccount
    /\ Unused({"account"})

others == << cycle, bar_scan, quant, entry_order, tp_split, prot, plan, risk, day_state >>

\* one cycle of main(): the scan leaves out the symbols it saw a position on
\* (run.py:418-422, 436; none where the query fails), the plans are cut to
\* allowed_slots (run.py:737-741, 810), and a plan is not placed where the
\* symbol has an entry order or a position (run.py:814-885) or the exchange
\* rejects the entry
ExecuteCycle ==
    \E fail1, fail2 \in BOOLEAN :
        \E plans \in SUBSET (Universe \ IF fail1 THEN {}
                                         ELSE Positions(account.status)) :
            /\ plans # {}
            /\ LET slots == allowed_slots(count_open_positions(account.status, fail2))
               IN \E taken \in SUBSET plans :
                     /\ Cardinality(taken) = Min(slots, Cardinality(plans))
                     /\ \E done \in SUBSET {s \in taken : account.status[s] = "flat"} :
                           account' =
                               [status |-> [s \in Universe |->
                                               IF s \in done THEN "entry"
                                               ELSE account.status[s]],
                                placed |-> Cardinality(done),
                                open_before |->
                                    Cardinality(Positions(account.status))]
            /\ UNCHANGED others

\* the exchange fills an entry order
SlotFill ==
    /\ \E s \in Universe :
          /\ account.status[s] = "entry"
          /\ account' = [account EXCEPT !.status[s] = "position", !.placed = 0]
    /\ UNCHANGED others

\* a position is closed by its stop or its targets
SlotClose ==
    /\ \E s \in Universe :
          /\ account.status[s] = "position"
          /\ account' = [account EXCEPT !.status[s] = "flat", !.placed = 0]
    /\ UNCHANGED others

\* an entry order is cancelled: the TTL of run.py:862-866
SlotExpire ==
    /\ \E s \in Universe :
          /\ account.status[s] = "entry"
          /\ account' = [account EXCEPT !.status[s] = "flat", !.placed = 0]
    /\ UNCHANGED others

NextSlots ==
    \/ ExecuteCycle
    \/ SlotFill
    \/ SlotClose
    \/ SlotExpire

SpecSlots == InitSlots /\ [][NextSlots]_vars

\* the day state: the processes of one or two UTC days, the file between
\* them, and the clock
NextDay ==
    \/ Tick
    \/ NewDayState
    \/ AddR
    \/ ResetHour
    \/ IncSignals
    \/ SetCooldown
    \/ IncReprice
    \/ ResetReprice
    \/ StopInSave
    \/ ScanSymbol
    \/ FinishCycle
    \/ AbortCycle

SpecDay == InitDay /\ [][NextDay]_vars

\* ---- properties ----------------------------------------------------------
StopLosses(b) == Count(b, {o \in DOMAIN b : IsSL(o)})

TakeProfits(b) == Count(b, {o \in DOMAIN b : IsTP(o)})

\* C1: every non-zero position has at most one active stop-loss order and
\* at most two active take-profit orders, whatever the engine and the
\* exchange have done before
C1_AtMostOneStopTwoTargets ==
    positionAmt # 0 => StopLosses(orders) <= 1 /\ TakeProfits(orders) <= 2

\* open orders hold a closePosition stop and a take-profit
Protected(b) == StopLosses(b) >= 1 /\ TakeProfits(b) >= 1

\* C2: a call of ensure_protection on a position that is already protected
\* (as it is right after a call whose placements all succeeded) places no
\* order
C2_EnsureIdempotent ==
    [][\A c \in Cycles :
          (pc[c] \in {"boot_protect", "ensure"} /\ pc'[c] # pc[c]
             /\ positionAmt # 0 /\ Protected(orders))
          => orders' = orders]_vars

StopActive(b) ==
    \E o \in DOMAIN b :
       o.closePosition /\ o.type \in {"STOP", "STOP_MARKET", "TRAILING_STOP_MARKET"}

\* C3: when a cycle has detected the fill of the entry it placed, then at
\* the end of that cycle the position is flat or a closePosition stop order
\* is open
C3_NoUnprotectedExposure ==
    [][\A c \in Cycles :
          (filled[c] /\ pc[c] \notin Idle /\ pc'[c] \in Idle)
          => (positionAmt' = 0 \/ StopActive(orders'))]_vars

IsProtection(o) == o.closePosition \/ o.reduceOnly

\* C5: when the position is zero and every call of cancel_protection_if_flat
\* succeeds, no closePosition or reduce-only order is open afterwards
C5_FlatCancelLeavesNone ==
    [][\A c \in Cycles :
          (pc[c] = "flatcheck" /\ pc'[c] = "final"
             /\ positionAmt = 0 /\ failures' = failures)
          => ~ \E o \in DOMAIN orders' : IsProtection(o)]_vars

\* C6: when the position has been zero from the start of a cycle on, no
\* closePosition or reduce-only order is open after the last cleanup of the
\* cycle
C6_FlatCycleLeavesNone ==
    [][\A c \in Cycles :
          (pc[c] = "final" /\ pc'[c] = "done" /\ stayed_flat[c])
          => ~ \E o \in DOMAIN orders' : IsProtection(o)]_vars

\* C7: no cycle places an entry order after its pre-placement check ran
\* while the symbol had a position or an un-expired entry order
C7_NoEntryWhenBlocked ==
    [][\A c \in Cycles : (placed'[c] /\ ~placed[c]) => ~blocked[c]]_vars

\* C8: two cycles that run at once never both place an entry order
C8_OneEntryAcrossCycles == ~ (placed[1] /\ placed[2])

\* main() is inside an execution attempt (run.py:899-932)
Attempting == {"place", "poll", "attach", "ensure", "upgrade", "flatcheck"}

\* C9: an entry order is placed only after the cleanup that precedes the
\* scan, and a cycle that has made an execution attempt does not end before
\* the final cleanup has run
C9_CleanupAroundEntries ==
    [][\A c \in Cycles :
          /\ (placed'[c] /\ ~placed[c]) => pc[c] = "place"
          /\ pc[c] \in Attempting => pc'[c] \notin Idle]_vars

OneTakeProfitLeft(b) == Count(b, {o \in DOMAIN b : IsTPLimit(o)}) = 1

Promoted(b) ==
    (b (-) Restrict(b, {o \in DOMAIN b : IsTPLimit(o) \/ IsSL(o)}))
       (+) One(TrailingStop)

\* C10 as stated: maybe_upgrade_tp_to_trailing replaces the last take-profit
\* and every closePosition stop by one trailing stop when exactly one
\* reduce-only LIMIT take-profit is open and the history shows a FILLED
\* reduce-only LIMIT, and changes nothing otherwise
C10_UpgradeAsStated ==
    [][\A c \in Cycles :
          (pc[c] = "upgrade" /\ pc'[c] = "flatcheck")
          => orders' = IF OneTakeProfitLeft(orders) /\ hist
                       THEN Promoted(orders) ELSE orders]_vars

\* C10: maybe_upgrade_tp_to_trailing changes nothing unless exactly one
\* reduce-only LIMIT take-profit is open, and then only if the history shows
\* a FILLED reduce-only LIMIT or the history query fails; when it acts it
\* touches only the take-profit and the closePosition stops, which stay open
\* only where a cancel failed, and places at most one trailing stop; with
\* the fill in the history and no failing call the replacement is complete
C10_UpgradeAmended ==
    [][\A c \in Cycles :
          (pc[c] = "upgrade" /\ pc'[c] = "flatcheck")
          => LET T    == {o \in DOMAIN orders : IsTPLimit(o) \/ IsSL(o)}
                 rest == orders (-) Restrict(orders, T)
                 left == orders' (-) rest
                 quiet == failures' = failures
             IN  /\ (~OneTakeProfitLeft(orders)) => orders' = orders
                 /\ ((~hist) /\ quiet) => orders' = orders
                 /\ (OneTakeProfitLeft(orders) /\ hist /\ quiet)
                       => orders' = Promoted(orders)
                 /\ \/ orders' = orders
                    \/ /\ rest \sqsubseteq orders'
                       /\ \E k \in SubBag(Restrict(orders, T)) :
                             left \in {k, k (+) One(TrailingStop)}]_vars

\* the promotion has replaced the last take-profit and the stop by a
\* trailing stop after the first take-profit was filled
C10_PromotedAfterFill ==
    \E c \in Cycles :
       /\ pc[c] = "flatcheck"
       /\ hist
       /\ positionAmt > 0
       /\ orders = One(TrailingStop)

Trailing(b) == Count(b, {o \in DOMAIN b : IsTrailing(o)})

\* C11: a position gets a trailing stop from maybe_upgrade_tp_to_trailing
\* only after one of its own take-profit orders has filled; stated for the
\* calls in which no exchange call fails
C11_PromotionAfterOwnFill ==
    [][\A c \in Cycles :
          (pc[c] = "upgrade" /\ pc'[c] = "flatcheck" /\ positionAmt # 0
             /\ failures' = failures /\ Trailing(orders') > Trailing(orders))
          => tp_filled]_vars

NearExpiry(b) == {o \in DOMAIN b : IsEntry(o) /\ o.age >= near_expiry}

Fresh(b) == {o \in DOMAIN b : IsEntry(o) /\ o.age < near_expiry}

\* C12: a cycle that executes plans cancels every entry order that is at
\* least cancel_after_bars - 2 bars old and leaves the younger ones open:
\* the management loop does so when no call fails, and the cycle does not
\* pass the symbol by while such an order is open
C12_NearExpiryCancelled ==
    [][\A c \in Cycles :
          /\ (pc[c] = "manage" /\ pc'[c] # "manage" /\ failures' = failures)
                => /\ NearExpiry(orders') = {}
                   /\ Restrict(orders', Fresh(orders'))
                         = Restrict(orders, Fresh(orders))
          /\ (pc[c] = "scan" /\ pc'[c] = "final") => NearExpiry(orders) = {}]_vars

\* C13: within one UTC day the symbol's retest entry is cancelled and
\* replaced at a new price at most max_reprice times, whatever the cycles
\* and process restarts in that day
C13_AtMostTwoReprices == repriced <= max_reprice

LimitEntries(b) == Restrict(b, {o \in DOMAIN b : IsEntry(o) /\ o.type = "LIMIT"})

\* C14: in retest style the open-order block of a plan, when no call fails,
\* re-prices an open LIMIT entry only if the symbol's own mark price is
\* within tolerance of the entry, and cancels the LIMIT entries without
\* replacing them when it is not
C14_RepriceWithinTolerance ==
    [][\A c \in Cycles :
          (pc[c] = "manage" /\ pc'[c] # "manage" /\ entry_style = "retest"
             /\ failures' = failures)
          => /\ repriced' > repriced => ~drift_far
             /\ drift_far => /\ LimitEntries(orders') = EmptyBag
                             /\ repriced' = repriced]_vars

\* C15: once the losses of the UTC day have reached max_daily_loss_r, a
\* cycle that comes to the can_trade_today test returns there, so that it
\* places no entry order
C15_BreakerStopsCycle ==
    [][\A c \in Cycles :
          (pc[c] = "prelude" /\ day_loss >= max_daily_loss_r)
          => pc'[c] \in Idle \cup {"prelude"}]_vars

\* _apply_leverage_cap's `implied`
Implied(p) == Div(Mul(p.entry, p.qty), p.equity)

\* C16: the implied leverage (entry * qty) / equity of a computed plan
\* exceeds neither the dynamic leverage cap of the cycle nor the leverage
\* chosen for the trade
C16_LeverageCapped ==
    sizing.sized => /\ Implied(sizing) <= sizing.lev_cap_dyn
                    /\ Implied(sizing) <= sizing.lev

\* the exchange takes no further order for the symbol
NoRoom(b) == BagCardinality(b) >= MaxOrders

\* C17: a position without a stop order, as a failed stop-loss placement at
\* the detection of the fill leaves it, gets a closePosition stop from a
\* later ensure_protection pass, unless the position goes flat or the
\* exchange has no room for the order: the cycle goes on and cycles keep
\* coming, and the calls of some pass all succeed
C17_StopRetried ==
    (positionAmt > 0 /\ ~StopActive(orders))
       ~> (StopActive(orders) \/ positionAmt = 0 \/ NoRoom(orders))

\* the stop-loss placement failed when the fill was detected and the cycle
\* has gone on to its ensure_protection pass
C17_AttachLeftNoStop ==
    /\ pc[1] = "ensure"
    /\ filled[1]
    /\ positionAmt > 0
    /\ ~StopActive(orders)
    /\ ~NoRoom(orders)
    /\ failures > 0

\* C18: a placement call that ends without an entry order has created no
\* order at all, and when the exchange rejected the entry (no call raised)
\* the call has returned to the plan loop, which goes on with its
\* ensure_protection pass
C18_RejectedEntryReturns ==
    [][\A c \in Cycles :
          (pc[c] = "place" /\ pc'[c] \notin {"place", "poll"})
          => /\ orders' = orders
             /\ failures' = failures => pc'[c] = "ensure"]_vars

\* the plan loop is past a placement call that placed no entry
C18_LoopGoesOn == pc[1] = "ensure" /\ ~placed[1]

\* main() is executing the plan of the symbol (run.py:810-932)
Executing ==
    {"manage", "poscheck", "setup", "place", "poll", "attach", "ensure",
     "upgrade", "flatcheck"}

\* C19: a step of the execution of a plan in which an exchange call fails
\* does not end the run: the plan loop goes on and the run ends only after
\* the final cleanup
C19_FailureStaysInCycle ==
    [][\A c \in Cycles :
          (pc[c] \in Executing /\ failures' > failures) => pc'[c] \notin Idle]_vars

\* the polling loop of cycle c ends without a fill, `late` after its deadline
\* at most: the call returns with `filled` unset and has neither placed nor
\* cancelled an order
TimesOut(c, late) ==
    (pc[c] = "poll" /\ pc'[c] = "ensure")
    => /\ elapsed[c] <= wait_fill_seconds + late
       /\ ~filled'[c]
       /\ orders' = Disown(orders, c)

C25_QuantizeIdempotent == quant.done = 2 => quant.q2 = quant.q1

\* an entry order has been submitted
Submitted == entry_order.submitted /\ entry_order.step # 0

\* C26: the quantity submitted on an entry order is at least the
\* instrument's minimum quantity
C26_QuantityAtLeastMin ==
    Submitted =>
        entry_order.quantity * 20 >= entry_order.min_qty * Decimals(entry_order.step)

\* the notional floor of the entry order
Floor(e) == Max(min_notional, Max(min_notional_floor, dyn_floor(e.equity)))

\* C27: submitted price times submitted quantity is at least the notional
\* floor
C27_NotionalAtLeastFloor ==
    Submitted =>
        entry_order.price * entry_order.quantity * One1
            >= Floor(entry_order) * Decimals(entry_order.tick) * Decimals(entry_order.step)

\* the rule for a position of k steps and a minimum of mn twentieths, sd steps
\* to the unit, in exact arithmetic and in steps
Rule(k, mn, sd) ==
    LET h1 == k \div 2
        h2 == k - h1
    IN  IF 20 * k < mn * sd THEN << TRUE, 0, 0 >>
        ELSE IF 20 * k < 2 * mn * sd THEN << FALSE, k, 0 >>
        ELSE IF 20 * h1 >= mn * sd /\ 20 * h2 >= mn * sd THEN << FALSE, h1, h2 >>
        ELSE << FALSE, k, 0 >>

\* submitted take-profit orders, with the quantities in steps
InSteps(o, t) ==
    << o[1], (o[2] * StepDen(t.step)) \div Decimals(t.step),
             (o[3] * StepDen(t.step)) \div Decimals(t.step) >>

\* C21: the entry path and ensure_protection follow one rule: one
\* closePosition TAKE_PROFIT_MARKET below the minimum quantity, one LIMIT for
\* the full size below twice the minimum, two LIMITs halving the size if both
\* halves reach the minimum, else one LIMIT for the full size
C21_OneSplitRule ==
    /\ tp_split.entry # << >> =>
          InSteps(tp_split.entry, tp_split)
              = Rule(tp_split.pos, tp_split.min_qty, StepDen(tp_split.step))
    /\ tp_split.ensure # << >> =>
          InSteps(tp_split.ensure, tp_split)
              = Rule(tp_split.pos, tp_split.min_qty, StepDen(tp_split.step))

\* price p, in ticks, is at least the buffer away from the mark, on the side
\* where a stop (dir = -1) or a target (dir = 1) of the position cannot
\* trigger at once
Clear(t, p, dir) ==
    dir * Sign(t) * 10000 * (p - t.mark) >= Buf(t.mark)

PricesOut == prot.placed /\ prot.mark # 0

\* C22: every protective price submitted is at least max(5 ticks, 0.05 % of
\* mark) from the mark price, stops on the losing and targets on the winning
\* side
C22_PricesClearOfMark ==
    PricesOut =>
        /\ Clear(prot, prot.stop, 0 - 1)
        /\ \A i \in DOMAIN prot.targets : Clear(prot, prot.targets[i], 1)

\* lo * ATR <= |entry - stop| <= hi * ATR
InBand(c, lo, hi) ==
    /\ Dist(c.entry, c.sl) >= FMul(lo, c.atr15)
    /\ Dist(c.entry, c.sl) <= FMul(hi, c.atr15)

\* C23: the stop distance of a candidate that is not rejected lies within the
\* configured multiples of the ATR, or within 0.4 and 3.0 of it where the
\* entry is below 1 or the ATR below 1 % of it
C23_StopDistanceInBand ==
    plan.stage \in {"targets", "emitted"} =>
        \/ InBand(plan, min_mult, max_mult)
        \/ Widened(plan.entry, plan.atr15) /\ InBand(plan, Dec(4, 10), 3 * One1)

\* C24: the targets of an emitted plan are ordered beyond the entry, the first
\* at least max(0.6 ATR, 3 ticks) from the entry and the second at least
\* max(0.8 ATR, 3 ticks) from the first
C24_TargetsOrdered ==
    plan.stage = "emitted" =>
        IF plan.side = "LONG"
        THEN /\ plan.entry < plan.t1 /\ plan.t1 < plan.t2
             /\ plan.t1 >= FAdd(plan.entry, min_delta1(plan))
             /\ plan.t2 >= FAdd(plan.t1, min_delta2(plan))
        ELSE /\ plan.entry > plan.t1 /\ plan.t1 > plan.t2
             /\ plan.t1 <= FSub(plan.entry, min_delta1(plan))
             /\ plan.t2 <= FSub(plan.t1, min_delta2(plan))

\* a long plan is emitted whose targets were both moved out to the minimum
\* distances
C24_TargetsMoved ==
    /\ plan.stage = "emitted"
    /\ plan.side = "LONG"
    /\ plan.t1 = FAdd(plan.entry, min_delta1(plan))
    /\ plan.t2 = FAdd(plan.t1, min_delta2(plan))
    /\ plan.atr15 = Dec(1, 2)

\* the negative results at the end of the results given so far
RECURSIVE Losses(_)
Losses(rs) ==
    IF rs = << >> \/ rs[Len(rs)] >= 0 THEN 0
    ELSE 1 + Losses(SubSeq(rs, 1, Len(rs) - 1))

Sized == risk.sized /\ risk.equity # 0

\* C28: the position size is equity times the risk fraction over the stop
\* distance, the fraction halved after three or more losses in a row, and 0
\* for a stop distance that is not positive; the counter counts the losses
\* since the last result that was not negative; 10,000 at 0.003 over 50 is 0.6
C28_PositionSize ==
    /\ risk.losing_streak = Losses(risk.results)
    /\ Sized =>
          /\ risk.stop_distance <= 0 => risk.qty = 0
          /\ risk.stop_distance > 0 /\ Losses(risk.results) < 3 =>
                risk.qty = RoundDiv(risk.equity * risk.r_per_trade, 2 * risk.stop_distance)
          /\ risk.stop_distance > 0 /\ Losses(risk.results) >= 3 =>
                risk.qty = RoundDiv(risk.equity * risk.r_per_trade, 4 * risk.stop_distance)
          /\ risk.equity = 10000 /\ risk.r_per_trade = 6 /\ risk.stop_distance = 50
                /\ Losses(risk.results) < 3 => risk.qty = 600

\* a size is asked for after a win and three losses in a row, and is half
\* of 0.6
C28_HalvedAfterThree ==
    /\ Sized
    /\ risk.results = << 1, 0 - 1, 0 - 1, 0 - 1 >>
    /\ risk.stop_distance = 50
    /\ risk.equity = 10000
    /\ risk.r_per_trade = 6
    /\ risk.qty = 300

\* C29: an open order carries closePosition or a quantity, never both and
\* never neither: stop-market, take-profit-market and trailing-stop orders
\* carry closePosition, entry orders and reduce-only take-profit limits a
\* quantity
C29_ClosePositionOrQuantity ==
    \A o \in DOMAIN orders :
        /\ o.closePosition <=> o.origQty = 0
        /\ o.type \in {"STOP_MARKET", "TAKE_PROFIT_MARKET", "TRAILING_STOP_MARKET"}
              => o.closePosition
        /\ o.type \in {"STOP", "LIMIT"} => ~o.closePosition /\ o.origQty > 0
        /\ o.closePosition => ~o.reduceOnly

\* a trailing stop and an entry order are open, after stops, take-profit
\* limits and an entry have been created
C29_AllKindsCreated ==
    /\ \E o \in DOMAIN orders : IsTrailing(o)
    /\ \E o \in DOMAIN orders : IsEntry(o)

\* C30: what a starting process holds after loading: a record of another
\* date is discarded entirely (net_R 0, no signals, no cooldowns, no re-price
\* counts), a record dated today is restored field for field, and a state
\* saved on this UTC day is the state that is loaded
C30_LoadRestoresToday ==
    day_state.loaded =>
        LET f == day_state.file
            st == day_state.state
            today == Date(day_state.now)
            dated == f.kind = "json" /\ "date" \in DOMAIN f.data
        IN /\ dated /\ f.data["date"] # today => st = Default(day_state.now)
           /\ dated /\ f.data["date"] = today =>
                  \A k \in DOMAIN f.data : st[k] = f.data[k]
           /\ day_state.saved_on = today => st = f.data

\* C31: the process stopped inside a save and nothing was saved since: a
\* process that starts on the same UTC day holds what it would have loaded
\* from the record before the mutation or from the record after it
C31_SaveAtomic ==
    day_state.loaded /\ day_state.stopped_on = Date(day_state.now) =>
        \/ day_state.state = load(day_state.pre, Default(day_state.now), day_state.now)
        \/ day_state.state = load(save(day_state.post), Default(day_state.now),
                                  day_state.now)

\* C32: in relaxed mode no plan comes out of a look at a symbol while the
\* signal counter has reached the cap in the hour of the state; a changed hour
\* resets the counter to 0; a cycle that has executed plans has incremented
\* the counter once; and no plan comes out for a symbol before the time its
\* cooldown was set to
C32_CapAndCooldown ==
    day_state.mode = "relaxed" =>
        /\ day_state.scan.outcome = "plan" => ~day_state.scan.capped
        /\ day_state.scan.changed =>
               day_state.state["hour"] = Hour(day_state.now)
        /\ day_state.scan.changed /\ day_state.scan.outcome # "none" =>
               day_state.state["signals_this_hour"] = 0
        /\ day_state.phase = "done" => day_state.incs = 1
        /\ day_state.scan.outcome = "plan"
              /\ day_state.scan.symbol \in DOMAIN day_state.cool =>
               day_state.now >= day_state.cool[day_state.scan.symbol]

\* C33: the cycle that has just run placed no more entry orders than
\* max_open less the positions open at that time, none if that is zero or
\* less, and the symbols with a position or a pending entry order are never
\* more than max_open
C33_MaxOpen ==
    /\ account.placed <= Max(0, max_open - account.open_before)
    /\ Cardinality({s \in Universe : account.status[s] # "flat"}) <= max_open

\* the bars the scan looks at: the last ScanBars bars whose window is long
\* enough
Looked(bars) ==
    {j \in 1 .. Len(bars) : j >= MinBars /\ j > Len(bars) - ScanBars}

\* C34: the scan emits at most one plan for a symbol and direction, none
\* where no bar of the last ScanBars qualifies, and otherwise a plan built
\* from the most recent bar that qualifies
C34_MostRecentBarWins ==
    bar_scan.done =>
        LET q == {j \in Looked(bar_scan.bars) : bar_scan.bars[j]}
        IN /\ Len(bar_scan.plans) <= 1
           /\ q = {} <=> bar_scan.plans = << >>
           /\ q # {} => \A j \in q : j <= bar_scan.plans[1]

ProtectPcs == {"protect_cleanup", "protect_boot", "protect"}

EntryOrders(b) == Restrict(b, {o \in DOMAIN b : IsEntry(o)})

\* C35: a step of a --protect run leaves the entry orders and the day state
\* as they are, and the run ends without a scan
C35_ProtectOnlyFrame ==
    [][\A c \in Cycles :
          pc[c] \in ProtectPcs /\ pc'[c] # pc[c] =>
              /\ EntryOrders(orders') = EntryOrders(orders)
              /\ UNCHANGED << day, day_loss >>
              /\ pc'[c] \in ProtectPcs \cup {"done"}]_vars

\* a --protect run has cleaned up and is about to ensure protection for a
\* position without a stop, while an entry order is open
C35_ProtectedByRun ==
    /\ pc[1] = "protect"
    /\ positionAmt > 0
    /\ \E o \in DOMAIN orders : IsEntry(o)
    /\ ~\E o \in DOMAIN orders : IsSL(o)

\* C36: when the open orders of the symbol have been managed and the entry
\* of the plan has just been placed, the symbol has one open entry order
C36_OneEntryOrder ==
    \A c \in Cycles :
        pc[c] = "poll" /\ elapsed[c] = 0 =>
            BagCardinality(EntryOrders(orders)) <= 1

HasStop(b) == \E o \in DOMAIN b : IsSL(o) \/ IsTrailing(o)

\* C37: when maybe_upgrade_tp_to_trailing returns and the symbol has a
\* position, a closePosition stop or a trailing stop is open
C37_StopAfterUpgrade ==
    [][\A c \in Cycles :
          pc[c] = "upgrade" /\ pc'[c] = "flatcheck" /\ positionAmt' > 0 =>
              HasStop(orders')]_vars

StopsAndTargets(b) == Count(b, {o \in DOMAIN b : IsSL(o) \/ IsTP(o)})

\* C38: an ensure_protection pass, in the cycle or in the boot pass of a
\* later one, for a position that has its trailing stop places no new
\* stop-loss and no new take-profit order
C38_NoReattachAfterTrailing ==
    [][\A c \in Cycles :
          /\ pc[c] \in {"ensure", "boot_protect"}
          /\ pc'[c] # pc[c]
          /\ positionAmt > 0
          /\ \E o \in DOMAIN orders : IsTrailing(o)
          => StopsAndTargets(orders') <= StopsAndTargets(orders)]_vars

\* a reduce-only LIMIT of quantity q, in counts of 1 / Decimals(step), is at
\* least the minimum quantity and a whole number of steps
GoodQty(q, t) ==
    /\ q * 20 >= t.min_qty * Decimals(t.step)
    /\ (q * StepDen(t.step)) % Decimals(t.step) = 0

\* the LIMITs of o add up to no more than the position
WithinPosition(o, t) == (o[2] + o[3]) * StepDen(t.step) <= t.pos * Decimals(t.step)

\* C39: the reduce-only take-profit LIMITs of a position add up to no more
\* than the position, and each is at least the minimum quantity and a whole
\* number of steps, in the entry path and in ensure_protection
C39_LimitsWithinPosition ==
    /\ tp_split.entry # << >> =>
          /\ WithinPosition(tp_split.entry, tp_split)
          /\ \A i \in {2, 3} :
                 tp_split.entry[i] # 0 => GoodQty(tp_split.entry[i], tp_split)
    /\ tp_split.ensure # << >> =>
          /\ WithinPosition(tp_split.ensure, tp_split)
          /\ ~tp_split.ensure[1] => GoodQty(tp_split.ensure[2], tp_split)
          /\ tp_split.ensure[3] # 0 => GoodQty(tp_split.ensure[3], tp_split)

\* the steps of _cleanup_stale_protection_orders and cancel_protection_if_flat
CleanupPcs == {"boot_cleanup", "protect_cleanup", "cleanup2", "flatcheck", "final"}

\* the position query fails in a cleanup: whatever else fails, the orders stay
QueryFailureKeeps ==
    \A bad \in {B \in SUBSET {"pos", "oo"} : "pos" \in B} :
       /\ \A keep \in SubBag(Restrict(orders, CleanupTargets(orders, positionAmt))) :
              CleanupResult(orders, positionAmt, bad, keep) = orders
       /\ \A keep \in SubBag(Restrict(orders, FlatTargets(orders))) :
              CancelIfFlatResult(orders, positionAmt, bad, keep) = orders

\* C40: the stale-protection cleanup and cancel_protection_if_flat cancel no
\* order while the position is not zero, never cancel an entry order, and
\* cancel nothing when the position query fails
C40_FlatCleanupFrame ==
    [][\A c \in Cycles :
          pc[c] \in CleanupPcs /\ pc'[c] # pc[c] =>
             /\ positionAmt # 0 => Disown(orders', c) = Disown(orders, c)
             /\ EntryOrders(Disown(orders', c)) = EntryOrders(Disown(orders, c))
             /\ QueryFailureKeeps]_vars

\* cancel_protection_if_flat has run on a flat position with an entry order
\* open that has traded in part: the protective orders are gone and the entry
\* order is there
C40_EntryLeftByFlatCheck ==
    /\ pc[1] = "final"
    /\ positionAmt = 0
    /\ hist
    /\ \E o \in DOMAIN orders : IsEntry(o) /\ o.executedQty > 0
    /\ FlatTargets(orders) = {}

====
